---- MODULE Spec2Model ----
(***************************************************************************)
(* A model of nocturne, a real-time software synthesizer.                  *)
(*                                                                         *)
(*   - the realtime buffer bridge: the cpal output callback                *)
(*     (src/src/audio_device.rs) and the frame producer loop               *)
(*     (src/src/instrument.rs);                                            *)
(*   - the synthesis engine's note handling (src/src/synthesizer.rs);      *)
(*   - the MIDI timeline quantizer (src/src/midi.rs) and the multi-track   *)
(*     replay it drives (src/src/ensemble.rs).                             *)
(*                                                                         *)
(* Each subsystem has its own specification over the shared variables; the *)
(* variables of the subsystems a specification does not run stay at their  *)
(* initial values.                                                         *)
(***************************************************************************)
EXTENDS Integers, Sequences, FiniteSets, TLC

(***************************************************************************)
(* Sizes.  The program's sizes (FRAME_SIZE = 512, CHANNEL_MAX_BUFFER = 50, *)
(* BUFFERS_AHEAD = 5) are scaled down; the others bound the exploration.   *)
(***************************************************************************)
FRAME_SIZE == 2
CHANNEL_MAX_BUFFER == 1
BUFFERS_AHEAD == 1
MaxDataLen == 3
MaxInvocations == 4
MaxFrames == 4
MaxSampledFrames == 2
NumTracks == 2
MaxEvents == 3
Bpm == 120

VARIABLES
    \* ---- realtime buffer bridge: the device callback ----
    cb_pc,                 \* position of the callback thread
    data,                  \* data: &mut [f32], the device's output buffer
    items_fulfilled,       \* local of the callback
    buffer_request_debt,   \* local of the callback
    leftover_buffer,       \* LeftoverBuffer {buffer, cursor}
    \* ---- the two channels between callback and producer ----
    buffer_request_chan,   \* mpsc::channel<()>: number of queued requests
    buffer_request_closed, \* the producer dropped buffer_request_rx
    frame_chan,            \* broadcast::channel<AudioFrame>: retained frames
    frame_lag,             \* frames the device receiver missed (overwritten)
    frame_closed,          \* the producer dropped frame_tx
    \* ---- the producer (Instrument::play_midi) ----
    prod_pc,
    frames_produced,
    \* ---- history of the bridge ----
    invocations,           \* callback invocations started
    request_attempts,      \* try_send attempts made for an empty LeftoverBuffer
    requests_sent,         \* try_send calls that returned Ok
    requests_received,     \* requests the producer received
    last_recv              \* outcome of the latest frame_rx.try_recv()

bridgeVars == <<cb_pc, data, items_fulfilled, buffer_request_debt, leftover_buffer,
                buffer_request_chan, buffer_request_closed, frame_chan, frame_lag,
                frame_closed, prod_pc, frames_produced, invocations,
                request_attempts, requests_sent, requests_received, last_recv>>

VARIABLES
    \* ---- the synthesis engine (Synthesizer) ----
    notes_playing,         \* HashMap<wmidi::Note, SynthNote>, as its set of entries
    synth_pc,              \* "running", or "panicked" after a failed expect
    frames_sampled,        \* calls of sample_notes so far
    last_message,          \* the raw message handled last (history)
    prev_notes,            \* notes_playing before that message (history)
    frame,                 \* << >>, or <<f>> for the frame f sample_notes returned last
    start_notes,           \* notes_playing when that call started (history)
    fresh_keys,            \* keys whose note started after the latest sample_notes
    release_age            \* per key: the updates its note got since it was
                           \* stopped while fresh, or -1 (history)

synthVars == <<notes_playing, synth_pc, frames_sampled, last_message, prev_notes,
               frame, start_notes, fresh_keys, release_age>>

VARIABLES
    \* ---- the MIDI file and the quantizer task (quantize_midi_tracks) ----
    tracks,                \* smf.tracks: per track, its events in file order
    ppqn,                  \* smf.header.timing, Metrical
    all_events,            \* the merged timeline
    q_pc,                  \* position of the quantizer task
    q_i,                   \* local i
    delta_t,               \* local delta_t
    \* ---- per-track channels and instrument tasks (play_all_midi_tracks) ----
    track_chan,            \* per track: messages queued in its mpsc channel
    instr_pc,              \* per track: the instrument task's position
    cancel_sent,           \* the cancellation broadcast has been sent
    \* ---- history of the replay ----
    dispatch_log,          \* timeline positions whose message was sent, in order
    wait_log,              \* the waits performed: position waited before, and length
    delivered,             \* per track: the messages its instrument received
    cancel_seen_at         \* Len(dispatch_log) when the quantizer saw the cancel, or -1

midiVars == <<tracks, ppqn, all_events, q_pc, q_i, delta_t, track_chan, instr_pc,
              cancel_sent, dispatch_log, wait_log, delivered, cancel_seen_at>>

VARIABLES
    \* ---- ticks_to_duration, called on its own ----
    dur_delta_t,           \* the delta_t of the latest call
    dur_result,            \* << >>, or <<d>> for the Duration d the call returned
    \* ---- the wave tables (wave_table.rs) ----
    INIT,                  \* static INIT: Once, "new" or "done"
    wave_tables,           \* the four static mut tables, by shape
    wave_pc,               \* per thread: position inside get_*_wave
    wave_shape,            \* per thread: the shape its call asks for
    wave_result,           \* per thread: << >>, or <<r>> for what its latest call returned
    wave_calls,            \* calls of get_*_wave started so far
    \* ---- one WaveTableIndex (wave_table.rs) ----
    table_index,           \* << >>, or <<w>> for the WaveTableIndex w
    osc_args,              \* the (sample_hz, hz) it was made from
    osc_lookup,            \* the table position its latest sample_table read, or -1
    osc_pc,                \* "running", or "panicked" after an out-of-bounds read
    osc_samples            \* calls of sample_table so far

durationVars == <<dur_delta_t, dur_result>>

waveVars == <<INIT, wave_tables, wave_pc, wave_shape, wave_result, wave_calls>>

oscVars == <<table_index, osc_args, osc_lookup, osc_pc, osc_samples>>

libVars == <<durationVars, waveVars, oscVars>>

VARIABLES
    \* ---- the recording sink (recording.rs) and the teardown of its owner ----
    rec_pc,                \* the writer task: "running", "finalized" or "panicked"
    sample_chan,           \* mpsc::channel<AudioFrame>: the frames queued
    exit_chan,             \* the oneshot: "open", "sent" or "closed" (sender dropped)
    written,               \* the frames written to the WAV file, in order
    accepted,              \* the frames write_frame accepted, in order (history)
    td_pc,                 \* position of the task that owns the recorder
    td_path,               \* the teardown it runs: "play_midi", "close" or "none" yet
    teardown_log           \* what the teardown did so far, in order (history)

recVars == <<rec_pc, sample_chan, exit_chan, written, accepted, td_pc, td_path,
             teardown_log>>

vars == <<bridgeVars, synthVars, midiVars, libVars, recVars>>

Min(a, b) == IF a <= b THEN a ELSE b

-----------------------------------------------------------------------------
(***************************************************************************)
(* Audio frames.  Frame number f (1, 2, ...) carries FRAME_SIZE distinct   *)
(* non-zero samples, so that silence (0) and the order of samples can be   *)
(* told apart.                                                             *)
(***************************************************************************)
\* A buffer that still holds what the device left in it (no zero fill).
stale_samples(n) == [i \in 1..n |-> 7]

Zeroes(n) == [i \in 1..n |-> 0]

AudioFrame(f) == [j \in 1..FRAME_SIZE |-> (f - 1) * FRAME_SIZE + j]

(***************************************************************************)
(* LeftoverBuffer                                                          *)
(***************************************************************************)
LeftoverBuffer_new == [buffer |-> Zeroes(FRAME_SIZE), cursor |-> FRAME_SIZE]

items_leftover(lb) == FRAME_SIZE - lb.cursor

is_empty(lb) == items_leftover(lb) = 0

\* A consume that copies from the start of the buffer, not from the cursor.
consume_from_start(lb, out, from) ==
    LET copy_amt == Min(items_leftover(lb), Len(out) - from)
    IN  [lb  |-> [lb EXCEPT !.cursor = lb.cursor + copy_amt],
         out |-> [i \in 1..Len(out) |->
                    IF i > from /\ i <= from + copy_amt
                    THEN lb.buffer[i - from]
                    ELSE out[i]],
         n   |-> copy_amt]

\* consume(&mut self, data_out): data_out is data[from+1 ..] (1-based here).
\* Returns the buffer after the call, the output after the call and copy_amt.
consume(lb, out, from) ==
    LET copy_amt == Min(items_leftover(lb), Len(out) - from)
    IN  [lb  |-> [lb EXCEPT !.cursor = lb.cursor + copy_amt],
         out |-> [i \in 1..Len(out) |->
                    IF i > from /\ i <= from + copy_amt
                    THEN lb.buffer[lb.cursor + (i - from)]
                    ELSE out[i]],
         n   |-> copy_amt]

overwrite(lb, data_in) == [buffer |-> data_in, cursor |-> 0]

(***************************************************************************)
(* Channel operations.                                                     *)
(***************************************************************************)
\* mpsc::Sender::try_send on the buffer request channel.
try_send_result ==
    IF buffer_request_closed THEN "Closed"
    ELSE IF buffer_request_chan >= CHANNEL_MAX_BUFFER THEN "Full"
    ELSE "Ok"

\* broadcast::Receiver::try_recv on the frame channel.
try_recv_result ==
    IF frame_lag > 0 THEN "Lagged"
    ELSE IF Len(frame_chan) > 0 THEN "Ok"
    ELSE IF frame_closed THEN "Closed"
    ELSE "Empty"

\* broadcast::Sender::send: never blocks; the oldest retained frame is
\* overwritten when the ring is full and the receiver then lags by one more.
broadcast_send(chan, f) ==
    IF Len(chan) >= CHANNEL_MAX_BUFFER THEN Append(Tail(chan), f) ELSE Append(chan, f)

broadcast_lag(chan, lag) ==
    IF Len(chan) >= CHANNEL_MAX_BUFFER THEN lag + 1 ELSE lag

-----------------------------------------------------------------------------
(***************************************************************************)
(* The realtime buffer bridge.                                             *)
(***************************************************************************)
BridgeInit ==
    /\ cb_pc = "idle"
    /\ data = << >>
    /\ items_fulfilled = 0
    /\ buffer_request_debt = 0
    /\ leftover_buffer = LeftoverBuffer_new
    /\ buffer_request_chan = 0
    /\ buffer_request_closed = FALSE
    /\ frame_chan = << >>
    /\ frame_lag = 0
    /\ frame_closed = FALSE
    /\ prod_pc = "init"
    /\ frames_produced = 0
    /\ invocations = 0
    /\ request_attempts = 0
    /\ requests_sent = 0
    /\ requests_received = 0
    /\ last_recv = "None"

\* Where the callback goes after `items_fulfilled` became n: the while test.
loop_test(n, requested) == IF n < requested THEN "pay" ELSE "idle"

\* The device invokes the callback with a buffer of len items (lines 105-112).
CallbackInvoke(len) ==
    /\ cb_pc = "idle"
    /\ prod_pc \in {"select", "sample"}          \* the stream is playing
    /\ invocations < MaxInvocations
    /\ invocations' = invocations + 1
    /\ data' = Zeroes(len)
    /\ items_fulfilled' = 0
    /\ buffer_request_debt' = 0
    /\ last_recv' = "None"
    /\ cb_pc' = loop_test(0, len)
    /\ UNCHANGED <<leftover_buffer, buffer_request_chan, buffer_request_closed,
                   frame_chan, frame_lag, frame_closed, prod_pc, frames_produced,
                   request_attempts, requests_sent, requests_received>>
    /\ UNCHANGED <<synthVars, midiVars, libVars, recVars>>

\* Where the callback goes after the debt payment: line 126.
after_pay == IF is_empty(leftover_buffer) THEN "request" ELSE "consume"

\* Lines 113-126: try to pay down the debt.
CallbackPayDebt ==
    /\ cb_pc = "pay"
    /\ \/ /\ buffer_request_debt = 0
          /\ cb_pc' = after_pay
          /\ UNCHANGED <<buffer_request_debt, buffer_request_chan, requests_sent>>
       \/ /\ buffer_request_debt > 0
          /\ try_send_result = "Ok"
          /\ buffer_request_chan' = buffer_request_chan + 1
          /\ requests_sent' = requests_sent + 1
          /\ buffer_request_debt' = buffer_request_debt - 1
          /\ cb_pc' = after_pay
       \/ /\ buffer_request_debt > 0
          /\ try_send_result = "Full"
          /\ cb_pc' = after_pay
          /\ UNCHANGED <<buffer_request_debt, buffer_request_chan, requests_sent>>
       \/ /\ buffer_request_debt > 0
          /\ try_send_result = "Closed"
          /\ cb_pc' = "panicked"
          /\ UNCHANGED <<buffer_request_debt, buffer_request_chan, requests_sent>>
    /\ UNCHANGED <<data, items_fulfilled, leftover_buffer, buffer_request_closed,
                   frame_chan, frame_lag, frame_closed, prod_pc, frames_produced,
                   invocations, request_attempts, requests_received, last_recv>>
    /\ UNCHANGED <<synthVars, midiVars, libVars, recVars>>

\* Lines 127-139: the LeftoverBuffer is empty, ask the producer for a frame.
CallbackSendRequest ==
    /\ cb_pc = "request"
    /\ \/ /\ try_send_result = "Ok"
          /\ buffer_request_chan' = buffer_request_chan + 1
          /\ requests_sent' = requests_sent + 1
          /\ request_attempts' = request_attempts + 1
          /\ cb_pc' = "recv"
          /\ UNCHANGED buffer_request_debt
       \/ /\ try_send_result = "Full"
          /\ buffer_request_debt' = buffer_request_debt + 1
          /\ request_attempts' = request_attempts + 1
          /\ cb_pc' = "recv"
          /\ UNCHANGED <<buffer_request_chan, requests_sent>>
       \/ /\ try_send_result = "Closed"
          /\ cb_pc' = "idle"
          /\ UNCHANGED <<buffer_request_debt, buffer_request_chan, requests_sent,
                         request_attempts>>
    /\ UNCHANGED <<data, items_fulfilled, leftover_buffer, buffer_request_closed,
                   frame_chan, frame_lag, frame_closed, prod_pc, frames_produced,
                   invocations, requests_received, last_recv>>
    /\ UNCHANGED <<synthVars, midiVars, libVars, recVars>>

\* Lines 141-162: replenish the LeftoverBuffer without blocking.
CallbackRecvFrame ==
    /\ cb_pc = "recv"
    /\ last_recv' = try_recv_result
    /\ \/ /\ try_recv_result = "Ok"
          /\ leftover_buffer' = overwrite(leftover_buffer, AudioFrame(Head(frame_chan)))
          /\ frame_chan' = Tail(frame_chan)
          /\ cb_pc' = "consume"
          /\ UNCHANGED frame_lag
       \/ /\ try_recv_result = "Empty"
          /\ cb_pc' = "idle"
          /\ UNCHANGED <<leftover_buffer, frame_chan, frame_lag>>
       \/ /\ try_recv_result = "Closed"
          /\ cb_pc' = "idle"
          /\ UNCHANGED <<leftover_buffer, frame_chan, frame_lag>>
       \/ /\ try_recv_result = "Lagged"
          /\ frame_lag' = 0
          /\ cb_pc' = "consume"
          /\ UNCHANGED <<leftover_buffer, frame_chan>>
    /\ UNCHANGED <<data, items_fulfilled, buffer_request_debt, buffer_request_chan,
                   buffer_request_closed, frame_closed, prod_pc, frames_produced,
                   invocations, request_attempts, requests_sent, requests_received>>
    /\ UNCHANGED <<synthVars, midiVars, libVars, recVars>>

\* Line 165 and the while test of line 112.
CallbackConsume ==
    /\ cb_pc = "consume"
    /\ LET r == consume(leftover_buffer, data, items_fulfilled)
       IN  /\ leftover_buffer' = r.lb
           /\ data' = r.out
           /\ items_fulfilled' = items_fulfilled + r.n
           /\ cb_pc' = loop_test(items_fulfilled + r.n, Len(data))
    /\ UNCHANGED <<buffer_request_debt, buffer_request_chan, buffer_request_closed,
                   frame_chan, frame_lag, frame_closed, prod_pc, frames_produced,
                   invocations, request_attempts, requests_sent, requests_received,
                   last_recv>>
    /\ UNCHANGED <<synthVars, midiVars, libVars, recVars>>

(***************************************************************************)
(* The producer: Instrument::play_midi.                                    *)
(***************************************************************************)
RECURSIVE send_frames(_, _, _)
\* frame_tx.send applied to frames first+1 .. first+n, in order.
send_frames(chan, first, n) ==
    IF n = 0 THEN chan
    ELSE send_frames(broadcast_send(chan, first + 1), first + 1, n - 1)

RECURSIVE lag_of_frames(_, _, _)
lag_of_frames(chan, lag, n) ==
    IF n = 0 THEN lag
    ELSE lag_of_frames(broadcast_send(chan, 0), broadcast_lag(chan, lag), n - 1)

\* Lines 109-129: get ahead of the device, then start the stream.
ProducerBufferAhead ==
    /\ prod_pc = "init"
    /\ frame_chan' = send_frames(frame_chan, frames_produced, BUFFERS_AHEAD)
    /\ frame_lag' = lag_of_frames(frame_chan, frame_lag, BUFFERS_AHEAD)
    /\ frames_produced' = frames_produced + BUFFERS_AHEAD
    /\ prod_pc' = "select"
    /\ UNCHANGED <<cb_pc, data, items_fulfilled, buffer_request_debt, leftover_buffer,
                   buffer_request_chan, buffer_request_closed, frame_closed,
                   invocations, request_attempts, requests_sent, requests_received,
                   last_recv>>
    /\ UNCHANGED <<synthVars, midiVars, libVars, recVars>>

\* Lines 135-136: the select arm that receives a buffer request.
ProducerRecvRequest ==
    /\ prod_pc = "select"
    /\ buffer_request_chan > 0
    /\ frames_produced < MaxFrames
    /\ buffer_request_chan' = buffer_request_chan - 1
    /\ requests_received' = requests_received + 1
    /\ prod_pc' = "sample"
    /\ UNCHANGED <<cb_pc, data, items_fulfilled, buffer_request_debt, leftover_buffer,
                   buffer_request_closed, frame_chan, frame_lag, frame_closed,
                   frames_produced, invocations, request_attempts, requests_sent,
                   last_recv>>
    /\ UNCHANGED <<synthVars, midiVars, libVars, recVars>>

\* Lines 137-140: sample one frame and send it to the device.
ProducerSendFrame ==
    /\ prod_pc = "sample"
    /\ frame_chan' = broadcast_send(frame_chan, frames_produced + 1)
    /\ frame_lag' = broadcast_lag(frame_chan, frame_lag)
    /\ frames_produced' = frames_produced + 1
    /\ prod_pc' = "select"
    /\ UNCHANGED <<cb_pc, data, items_fulfilled, buffer_request_debt, leftover_buffer,
                   buffer_request_chan, buffer_request_closed, frame_closed,
                   invocations, request_attempts, requests_sent, requests_received,
                   last_recv>>
    /\ UNCHANGED <<synthVars, midiVars, libVars, recVars>>

\* Lines 142-158: interrupted; the loop ends, the stream is paused and the
\* function returns, dropping buffer_request_rx and frame_tx.
ProducerExit ==
    /\ prod_pc = "select"
    /\ prod_pc' = "exited"
    /\ buffer_request_closed' = TRUE
    /\ frame_closed' = TRUE
    /\ UNCHANGED <<cb_pc, data, items_fulfilled, buffer_request_debt, leftover_buffer,
                   buffer_request_chan, frame_chan, frame_lag, frames_produced,
                   invocations, request_attempts, requests_sent, requests_received,
                   last_recv>>
    /\ UNCHANGED <<synthVars, midiVars, libVars, recVars>>

-----------------------------------------------------------------------------
(***************************************************************************)
(* The synthesis engine.  The f32 envelope factors are kept exactly, as    *)
(* integers in units of 2^-29: every f32 between 2^-6 and 2 is a whole     *)
(* number of them.  A velocity byte v gives v / 100.0 and is kept as v.    *)
(***************************************************************************)
\* 1.0f32, 0.05f32 and 0.02f32 in units of 2^-29.
F32_ONE == 536870912
DECAY_STEP == 26843546
DONE_BELOW == 26843546
ATTACK_STEP == 10737418

RECURSIVE f32_ulp(_, _)
\* The spacing of the f32 values around x > 0: the least power of two q with
\* x < 2^24 * q, so that x / q has at most 24 bits.
f32_ulp(x, q) == IF x < 16777216 * q THEN q ELSE f32_ulp(x, 2 * q)

\* The f32 nearest to x, ties to the even mantissa: the rounding of every
\* f32 addition and subtraction.
f32_round(x) ==
    LET a   == IF x < 0 THEN -x ELSE x
        q   == f32_ulp(a, 1)
        lo  == a \div q
        rem == a % q
        m   == IF 2 * rem > q \/ (2 * rem = q /\ lo % 2 = 1) THEN lo + 1 ELSE lo
    IN  IF x < 0 THEN -(m * q) ELSE m * q

StatusBytes == {128, 144, 176, 248, 60}
KeyBytes == {60, 61}
VelocityBytes == {0, 64, 100}
RawMessages == {<<st, k, v>> : st \in StatusBytes, k \in KeyBytes, v \in VelocityBytes}

\* wmidi's MidiMessage::try_from(&message[..]) on the three bytes.
MidiMessage_try_from(m) ==
    IF m[1] < 128 THEN [kind |-> "Err"]
    ELSE IF m[1] \in 128..143
         THEN IF m[2] > 127 \/ m[3] > 127 THEN [kind |-> "Err"]
              ELSE [kind |-> "NoteOff", key |-> m[2], velocity |-> m[3]]
    ELSE IF m[1] \in 144..159
         THEN IF m[2] > 127 \/ m[3] > 127 THEN [kind |-> "Err"]
              ELSE [kind |-> "NoteOn", key |-> m[2], velocity |-> m[3]]
    ELSE IF m[1] = 248 THEN [kind |-> "TimingClock"]
    ELSE IF m[1] = 254 THEN [kind |-> "ActiveSensing"]
    ELSE [kind |-> "Other"]

SynthNote(velocity) ==
    [stop_requested |-> FALSE, decay_factor |-> F32_ONE, attack_factor |-> 0,
     velocity |-> velocity]

\* An insert that keeps the entry the key already has.
insert_beside(map, key, note) == map \cup {[key |-> key, note |-> note]}

\* HashMap::insert: the entry of the key, if any, is replaced.
HashMap_insert(map, key, note) ==
    {e \in map : e.key # key} \cup {[key |-> key, note |-> note]}

HashMap_remove(map, key) == {e \in map : e.key # key}

start_note(map, key, velocity) == HashMap_insert(map, key, SynthNote(velocity))

\* A stop that also restarts the envelope of the note it stops.
stop_key_restarting(map, key) ==
    {IF e.key = key
     THEN [e EXCEPT !.note.stop_requested = TRUE, !.note.attack_factor = 0]
     ELSE e : e \in map}

\* get_mut(&key), and on Some(n): n.stop_requested = true.
stop_key(map, key) ==
    {IF e.key = key THEN [e EXCEPT !.note.stop_requested = TRUE] ELSE e : e \in map}

\* A match that starts a note for every note-on, whatever its velocity.
handle_parsed_zero_starts(map, msg) ==
    IF msg.kind = "NoteOn" THEN start_note(map, msg.key, msg.velocity)
    ELSE IF msg.kind = "NoteOff" THEN stop_key(map, msg.key)
    ELSE map

\* The match of handle_midi_message on a parsed message.
handle_parsed(map, msg) ==
    IF msg.kind = "NoteOn"
    THEN IF msg.velocity = 0 THEN stop_key(map, msg.key)
         ELSE start_note(map, msg.key, msg.velocity)
    ELSE IF msg.kind = "NoteOff" THEN stop_key(map, msg.key)
    ELSE map

update_after_buffer(n) ==
    LET d == IF n.stop_requested THEN f32_round(n.decay_factor - DECAY_STEP)
             ELSE n.decay_factor
        a == IF n.attack_factor < F32_ONE THEN f32_round(n.attack_factor + ATTACK_STEP)
             ELSE n.attack_factor
    IN  [n EXCEPT !.decay_factor = d, !.attack_factor = a]

done_playing(n) == n.decay_factor < DONE_BELOW

\* CHANNELS and SAMPLES_PER_FRAME of the crate root: the frame holds
\* SAMPLES_PER_FRAME samples for each of the CHANNELS output channels.
CHANNELS == 2
SAMPLES_PER_FRAME == FRAME_SIZE \div CHANNELS

\* The frame positions the sampling loop writes: i = 0 .. SAMPLES_PER_FRAME *
\* CHANNELS - 1 in the code.
SamplePositions == 1..(SAMPLES_PER_FRAME * CHANNELS)

\* A frame whose samples start from what an earlier call left behind.
stale_frame == [i \in 1..FRAME_SIZE |-> [base |-> 7, terms |-> {}]]

\* let mut frame = [0.0; FRAME_SIZE].  A sample of the frame is kept as the
\* value it starts from and the set of terms added to it.
zero_frame == [i \in 1..FRAME_SIZE |-> [base |-> 0, terms |-> {}]]

\* note.sample_table(oscillator).min(1.0) for the s-th sample of the frame:
\* 0.2 * attack_factor * decay_factor * velocity times the table entry the
\* note's index has reached, kept as the factors that determine it.
sample_term(e, s) ==
    [key |-> e.key, attack_factor |-> e.note.attack_factor,
     decay_factor |-> e.note.decay_factor, velocity |-> e.note.velocity, sample |-> s]

\* A mix that leaves a note that is about to end out of the frame's last
\* position.
mixed_frame_cut_short(map) ==
    [i \in 1..FRAME_SIZE |->
       IF i \in SamplePositions
       THEN [zero_frame[i] EXCEPT !.terms =
               {sample_term(e, (i - 1) \div CHANNELS) :
                  e \in {n \in map : i < SAMPLES_PER_FRAME * CHANNELS
                                      \/ ~done_playing(update_after_buffer(n.note))}}]
       ELSE zero_frame[i]]

\* Lines 108-119: every note adds its sample to every position of the frame,
\* the same sample to the CHANNELS positions of one sample time.
mixed_frame(map) ==
    [i \in 1..FRAME_SIZE |->
       IF i \in SamplePositions
       THEN [zero_frame[i] EXCEPT !.terms =
               {sample_term(e, (i - 1) \div CHANNELS) : e \in map}]
       ELSE zero_frame[i]]

\* A release that ends a note only once its decay_factor is below zero.
remove_keys_below_zero(updated) == {u.key : u \in {n \in updated : n.note.decay_factor < 0}}

\* Lines 121-124: the keys of the notes that are done playing after their
\* update.
remove_keys(updated) == {u.key : u \in {n \in updated : done_playing(n.note)}}

\* Synthesizer::sample_notes: the frame it returns and notes_playing after it.
sample_notes(map) ==
    LET updated == {[e EXCEPT !.note = update_after_buffer(e.note)] : e \in map}
    IN  [frame |-> mixed_frame(map),
         notes |-> {e \in updated : e.key \notin remove_keys(updated)}]

Keys(map) == {e.key : e \in map}

\* Where the history counter release_age stops counting.
MaxReleaseAge == 30

\* ExponentialSmoothing::apply, in hundredths: the new smoothed_value, which
\* is also the value returned.
ExponentialSmoothing_apply(filter, sample) ==
    [filter EXCEPT !.smoothed_value =
        (filter.factor * sample + (100 - filter.factor) * filter.smoothed_value) \div 100]

SynthInit ==
    /\ notes_playing = {}
    /\ synth_pc = "running"
    /\ frames_sampled = 0
    /\ last_message = << >>
    /\ prev_notes = {}
    /\ frame = << >>
    /\ start_notes = {}
    /\ fresh_keys = {}
    /\ release_age = [k \in KeyBytes |-> -1]

\* The history kept about a handled message: a note-on makes its key fresh,
\* and a stop of a fresh, sounding note starts its release_age.
fresh_after(msg) ==
    IF msg.kind = "NoteOn" /\ msg.velocity > 0 THEN fresh_keys \cup {msg.key}
    ELSE fresh_keys

release_age_after(msg) ==
    IF msg.kind = "NoteOn" /\ msg.velocity > 0
    THEN [release_age EXCEPT ![msg.key] = -1]
    ELSE IF /\ msg.kind \in {"NoteOn", "NoteOff"}
            /\ msg.key \in fresh_keys
            /\ msg.key \in Keys(notes_playing)
         THEN [release_age EXCEPT ![msg.key] = 0]
    ELSE release_age

\* Synthesizer::handle_midi_message.
HandleMidiMessage(raw) ==
    /\ synth_pc = "running"
    /\ last_message' = raw
    /\ prev_notes' = notes_playing
    /\ LET msg == MidiMessage_try_from(raw)
       IN  IF msg.kind = "Err"
           THEN /\ synth_pc' = "panicked"
                /\ UNCHANGED <<notes_playing, fresh_keys, release_age>>
           ELSE /\ notes_playing' = handle_parsed(notes_playing, msg)
                /\ fresh_keys' = fresh_after(msg)
                /\ release_age' = release_age_after(msg)
                /\ UNCHANGED synth_pc
    /\ UNCHANGED <<frames_sampled, frame, start_notes>>
    /\ UNCHANGED <<bridgeVars, midiVars, libVars, recVars>>

\* What a call of sample_notes does to the engine and its history.
SampleStep ==
    /\ synth_pc = "running"
    /\ frame' = <<sample_notes(notes_playing).frame>>
    /\ notes_playing' = sample_notes(notes_playing).notes
    /\ start_notes' = notes_playing
    /\ fresh_keys' = {}
    /\ release_age' = [k \in KeyBytes |->
                         IF release_age[k] >= 0 /\ k \in Keys(notes_playing)
                         THEN Min(release_age[k] + 1, MaxReleaseAge) ELSE release_age[k]]
    /\ last_message' = << >>
    /\ prev_notes' = {}
    /\ UNCHANGED synth_pc
    /\ UNCHANGED <<bridgeVars, midiVars, libVars, recVars>>

\* Synthesizer::sample_notes, as buffer_ahead calls it: every note is sampled
\* for the whole frame, then updated, and the notes that are done playing
\* are removed.
SampleNotes ==
    /\ frames_sampled < MaxSampledFrames
    /\ frames_sampled' = frames_sampled + 1
    /\ SampleStep

\* Synthesizer::send_frame, run for every buffer request for as long as the
\* engine runs: sample_notes, and the frame goes to the output device.
SendFrame ==
    /\ SampleStep
    /\ UNCHANGED frames_sampled

\* A player that sends well-formed messages and plays one key at a time.
Monophonic(raw) ==
    /\ MidiMessage_try_from(raw).kind # "Err"
    /\ \A e \in notes_playing : e.key = raw[2]

-----------------------------------------------------------------------------
(***************************************************************************)
(* The MIDI file.  An event is its delta-time and its kind; a timeline     *)
(* entry refers to its event by track and position, as the code's          *)
(* &midly::Event does, and tracks are numbered from 1 here (from 0 in the  *)
(* code).                                                                  *)
(***************************************************************************)
Deltas == {0, 50, 100}
EventKinds == {"NoteOn", "Meta"}
Ppqns == {480}
MidiEvents == [delta : Deltas, kind : EventKinds]
TrackNums == 1..NumTracks

RECURSIVE SeqsUpTo(_, _)
\* The sequences over S of length at most n.
SeqsUpTo(S, n) ==
    IF n = 0 THEN {<< >>}
    ELSE LET shorter == SeqsUpTo(S, n - 1)
         IN  shorter \cup {Append(q, x) : q \in {r \in shorter : Len(r) = n - 1}, x \in S}

RECURSIVE FilesOf(_, _)
\* The files of k tracks that hold at most budget events.
FilesOf(k, budget) ==
    IF k = 0 THEN {<< >>}
    ELSE UNION {{<<tr>> \o rest : rest \in FilesOf(k - 1, budget - Len(tr))} :
                tr \in SeqsUpTo(MidiEvents, budget)}

\* The files explored: NumTracks tracks holding at most MaxEvents events.
MidiFiles == FilesOf(NumTracks, MaxEvents)

\* midly's serialization of an event kind (event.kind.write).
SerializedBytes(kind) ==
    IF kind = "NoteOn" THEN <<144, 60, 64>> ELSE <<255, 81, 3, 7, 161, 32>>

RECURSIVE track_entries(_, _, _, _)
\* The inner loop of single_timeline_of_events over one track, from event k.
track_entries(track, track_num, k, abs_t) ==
    IF k > Len(track) THEN << >>
    ELSE <<[t |-> abs_t, track |-> track_num, pos |-> k]>>
         \o track_entries(track, track_num, k + 1, abs_t + track[k].delta)

RECURSIVE pushed_events(_, _)
\* The outer loop: the entries of tracks track_num .. NumTracks, in push order.
pushed_events(ts, track_num) ==
    IF track_num > NumTracks THEN << >>
    ELSE track_entries(ts[track_num], track_num, 1, 0) \o pushed_events(ts, track_num + 1)

RECURSIVE insert_sorted(_, _)
\* Insert e behind every entry that does not compare greater: a stable insert.
insert_sorted(sorted, e) ==
    IF sorted = << >> THEN <<e>>
    ELSE IF Head(sorted).t <= e.t THEN <<Head(sorted)>> \o insert_sorted(Tail(sorted), e)
    ELSE <<e>> \o sorted

RECURSIVE sort_by_t(_, _)
\* Vec::sort_by on the absolute timestamp: a stable sort.
sort_by_t(sorted, rest) ==
    IF rest = << >> THEN sorted
    ELSE sort_by_t(insert_sorted(sorted, Head(rest)), Tail(rest))

single_timeline_of_events(ts) == sort_by_t(<< >>, pushed_events(ts, 1))

\* A conversion that cuts a longer event down to its first three bytes.
convert_truncating(event) ==
    LET raw_message == SerializedBytes(event.kind)
    IN  [some |-> TRUE,
         raw  |-> [j \in 1..3 |-> IF j <= Len(raw_message) THEN raw_message[j] ELSE 0]]

\* convert_event_to_raw_message: Some(three bytes, zero padded) or None.
convert_event_to_raw_message(event) ==
    LET raw_message == SerializedBytes(event.kind)
        message_len == Len(raw_message)
    IN  IF message_len <= 3
        THEN [some |-> TRUE,
              raw  |-> [j \in 1..3 |-> IF j <= message_len THEN raw_message[j] ELSE 0]]
        ELSE [some |-> FALSE]

\* ticks_to_duration.  millis = delta_t * 60000 / (bpm * ppqn); the whole
\* seconds and the nanoseconds below a second of floor(millis * 1e6) are kept
\* apart so that no intermediate value leaves the 32-bit range of the checker.
\* The code subtracts seconds * 1_000_000 from the total nanoseconds, and
\* Duration::new carries whole seconds out of its nanoseconds argument.
RECURSIVE as_u32(_, _)
\* `nanos as u32` of the value s * 10^9 + n, again as the pair (s, n):
\* 2^32 = 4 * 10^9 + 294_967_296 is taken off until the value is below it.
as_u32(s, n) ==
    IF s < 4 \/ (s = 4 /\ n < 294967296) THEN [s |-> s, n |-> n]
    ELSE IF n >= 294967296 THEN as_u32(s - 4, n - 294967296)
    ELSE as_u32(s - 5, n + 1000000000 - 294967296)

ticks_to_duration(bpm, pq, dt) ==
    LET per_m  == bpm * pq                        \* ticks per 60 seconds
        ticks  == IF dt < 0 THEN 0 ELSE dt
        whole  == (ticks * 60) \div per_m         \* seconds = nanos / 10^9
        r0     == (ticks * 60) % per_m            \* r0 / per_m seconds are left
        ms     == (r0 * 1000) \div per_m
        r1     == (r0 * 1000) % per_m
        us     == (r1 * 1000) \div per_m
        r2     == (r1 * 1000) % per_m
        ns     == (r2 * 1000) \div per_m
        sub    == ms * 1000000 + us * 1000 + ns   \* nanos below one second
        \* nanos -= seconds * 1_000_000, as whole seconds and the rest
        less   == whole * 1000000
        left   == IF sub >= less THEN [s |-> whole, n |-> sub - less]
                  ELSE [s |-> whole - 1, n |-> sub + 1000000000 - less]
        arg    == as_u32(left.s, left.n)
    IN  [secs |-> whole + arg.s, nanos |-> arg.n]

-----------------------------------------------------------------------------
(***************************************************************************)
(* The replay: quantize_midi_tracks, the per-track channels and the        *)
(* instrument tasks spawned by play_all_midi_tracks.                       *)
(***************************************************************************)
MidiInitOn(files) ==
    /\ tracks \in files
    /\ ppqn \in Ppqns
    /\ all_events = << >>
    /\ q_pc = "start"
    /\ q_i = 1
    /\ delta_t = 0
    /\ track_chan = [tr \in TrackNums |-> << >>]
    /\ instr_pc = [tr \in TrackNums |-> "running"]
    /\ cancel_sent = FALSE
    /\ dispatch_log = << >>
    /\ wait_log = << >>
    /\ delivered = [tr \in TrackNums |-> << >>]
    /\ cancel_seen_at = -1

MidiInit == MidiInitOn(MidiFiles)

event_of(entry) == tracks[entry.track][entry.pos]

\* mpsc::Sender::send(..).await on a track's channel: "Closed" once the
\* instrument dropped its receiver, "Full" while it has to wait for capacity.
send_result(tr) ==
    IF instr_pc[tr] = "done" THEN "Closed"
    ELSE IF Len(track_chan[tr]) >= CHANNEL_MAX_BUFFER THEN "Full"
    ELSE "Ok"

\* Whether send_event_to_track on timeline entry k can complete now: it has
\* nothing to await when the event converts to None.
send_ready(k) ==
    \/ ~convert_event_to_raw_message(event_of(all_events[k])).some
    \/ send_result(all_events[k].track) # "Full"

\* A send that always goes to the first track's channel.
sent_chan_first(k) ==
    LET e == all_events[k]
        m == convert_event_to_raw_message(event_of(e))
    IN  IF m.some /\ send_result(e.track) = "Ok"
        THEN [track_chan EXCEPT ![1] = Append(@, <<e.t, m.raw>>)]
        ELSE track_chan

\* send_event_to_track on timeline entry k: the channels afterwards.
sent_chan(k) ==
    LET e == all_events[k]
        m == convert_event_to_raw_message(event_of(e))
    IN  IF m.some /\ send_result(e.track) = "Ok"
        THEN [track_chan EXCEPT ![e.track] = Append(@, <<e.t, m.raw>>)]
        ELSE track_chan

sent_log(k) ==
    LET e == all_events[k]
        m == convert_event_to_raw_message(event_of(e))
    IN  IF m.some /\ send_result(e.track) = "Ok" THEN Append(dispatch_log, k)
        ELSE dispatch_log

\* The expect of send_event_to_track fails.
send_panics(k) ==
    /\ convert_event_to_raw_message(event_of(all_events[k])).some
    /\ send_result(all_events[k].track) = "Closed"

\* The first position, numbered from 1: the code's i = 0.
first_i == 1

\* Lines 102-119: parse, merge the tracks, and test the outer loop.
QuantizeStart ==
    /\ q_pc = "start"
    /\ LET merged == single_timeline_of_events(tracks)
       IN  /\ all_events' = merged
           /\ q_pc' = IF merged = << >> THEN "done"
                      ELSE IF first_i < Len(merged) THEN "batch" ELSE "last"
    /\ q_i' = first_i
    /\ delta_t' = 0
    /\ UNCHANGED <<tracks, ppqn, track_chan, instr_pc, cancel_sent, dispatch_log,
                   wait_log, delivered, cancel_seen_at>>
    /\ UNCHANGED <<bridgeVars, synthVars, libVars, recVars>>

\* delta_t after the event at position k was sent: line 134.
next_delta(k) == all_events[k + 1].t - all_events[k].t

\* Lines 122-138: one turn of the inner loop.
QuantizeSendBatched ==
    /\ q_pc = "batch"
    /\ send_ready(q_i)
    /\ IF send_panics(q_i)
       THEN /\ q_pc' = "panicked"
            /\ UNCHANGED <<q_i, delta_t, track_chan, dispatch_log>>
       ELSE /\ track_chan' = sent_chan(q_i)
            /\ dispatch_log' = sent_log(q_i)
            /\ delta_t' = next_delta(q_i)
            /\ q_i' = q_i + 1
            /\ q_pc' = IF next_delta(q_i) = 0 /\ q_i + 1 < Len(all_events)
                       THEN "batch" ELSE "select"
    /\ UNCHANGED <<tracks, ppqn, all_events, instr_pc, cancel_sent, wait_log,
                   delivered, cancel_seen_at>>
    /\ UNCHANGED <<bridgeVars, synthVars, libVars, recVars>>

\* Line 142: the select sees the cancellation and breaks out of the loop.
QuantizeCancelled ==
    /\ q_pc = "select"
    /\ cancel_sent
    /\ q_pc' = "last"
    /\ cancel_seen_at' = Len(dispatch_log)
    /\ UNCHANGED <<tracks, ppqn, all_events, q_i, delta_t, track_chan, instr_pc,
                   cancel_sent, dispatch_log, wait_log, delivered>>
    /\ UNCHANGED <<bridgeVars, synthVars, libVars, recVars>>

\* Line 143: the delay elapses; then the outer loop test and line 121.
QuantizeDelayElapsed ==
    /\ q_pc = "select"
    /\ wait_log' = Append(wait_log, [before |-> q_i, ticks |-> delta_t,
                                     duration |-> ticks_to_duration(Bpm, ppqn, delta_t)])
    /\ q_pc' = IF q_i < Len(all_events) THEN "batch" ELSE "last"
    /\ delta_t' = IF q_i < Len(all_events) THEN 0 ELSE delta_t
    /\ UNCHANGED <<tracks, ppqn, all_events, q_i, track_chan, instr_pc, cancel_sent,
                   dispatch_log, delivered, cancel_seen_at>>
    /\ UNCHANGED <<bridgeVars, synthVars, libVars, recVars>>

\* Lines 147-156: "Send the last event", all_events[i], and return.
QuantizeSendLast ==
    /\ q_pc = "last"
    /\ send_ready(q_i)
    /\ IF send_panics(q_i)
       THEN /\ q_pc' = "panicked"
            /\ UNCHANGED <<track_chan, dispatch_log>>
       ELSE /\ track_chan' = sent_chan(q_i)
            /\ dispatch_log' = sent_log(q_i)
            /\ q_pc' = "done"
    /\ UNCHANGED <<tracks, ppqn, all_events, q_i, delta_t, instr_pc, cancel_sent,
                   wait_log, delivered, cancel_seen_at>>
    /\ UNCHANGED <<bridgeVars, synthVars, libVars, recVars>>

\* A track's instrument takes the next message from its channel.
InstrumentRecv(tr) ==
    /\ instr_pc[tr] = "running"
    /\ track_chan[tr] # << >>
    /\ delivered' = [delivered EXCEPT ![tr] = Append(@, Head(track_chan[tr]))]
    /\ track_chan' = [track_chan EXCEPT ![tr] = Tail(@)]
    /\ UNCHANGED <<tracks, ppqn, all_events, q_pc, q_i, delta_t, instr_pc, cancel_sent,
                   dispatch_log, wait_log, cancel_seen_at>>
    /\ UNCHANGED <<bridgeVars, synthVars, libVars, recVars>>

\* A track's instrument sees the cancellation: its task ends and its
\* message receiver is dropped with it.
InstrumentCancelled(tr) ==
    /\ instr_pc[tr] = "running"
    /\ cancel_sent
    /\ instr_pc' = [instr_pc EXCEPT ![tr] = "done"]
    /\ UNCHANGED <<tracks, ppqn, all_events, q_pc, q_i, delta_t, track_chan, cancel_sent,
                   dispatch_log, wait_log, delivered, cancel_seen_at>>
    /\ UNCHANGED <<bridgeVars, synthVars, libVars, recVars>>

\* cancel_tx.send(()): the cancellation is broadcast to every task.
CancelBroadcast ==
    /\ ~cancel_sent
    /\ cancel_sent' = TRUE
    /\ UNCHANGED <<tracks, ppqn, all_events, q_pc, q_i, delta_t, track_chan, instr_pc,
                   dispatch_log, wait_log, delivered, cancel_seen_at>>
    /\ UNCHANGED <<bridgeVars, synthVars, libVars, recVars>>

-----------------------------------------------------------------------------
(***************************************************************************)
(* The producer's event loop with its MIDI input: the select! of           *)
(* Instrument::play_midi and of Synthesizer::handle_events.  The message   *)
(* stream of the instrument is the channel of track 1; the timestamps of   *)
(* the queued messages tell them apart.                                    *)
(***************************************************************************)
NoteEvents == {<<144, 60, 100>>}
Timestamps == 0..CHANNEL_MAX_BUFFER

RECURSIVE sampled_ahead(_, _)
\* notes_playing after n calls of sample_notes whose frames are dropped.
sampled_ahead(map, n) ==
    IF n = 0 THEN map ELSE sampled_ahead(sample_notes(map).notes, n - 1)

\* Synthesizer::buffer_ahead and start_output_device (server.rs, run_midi):
\* sample_notes is called BUFFERS_AHEAD times and what it returns is
\* dropped; nothing is written to the output device.
SynthBufferAhead ==
    /\ prod_pc = "init"
    /\ prod_pc' = "select"
    /\ notes_playing' = sampled_ahead(notes_playing, BUFFERS_AHEAD)
    /\ frames_sampled' = frames_sampled + BUFFERS_AHEAD
    /\ UNCHANGED <<synth_pc, last_message, prev_notes, frame, start_notes, fresh_keys,
                   release_age>>
    /\ UNCHANGED <<cb_pc, data, items_fulfilled, buffer_request_debt, leftover_buffer,
                   buffer_request_chan, buffer_request_closed, frame_chan, frame_lag,
                   frame_closed, frames_produced, invocations, request_attempts,
                   requests_sent, requests_received, last_recv>>
    /\ UNCHANGED <<midiVars, libVars, recVars>>

\* The MIDI input (a device, or the quantizer) sends a note event; its
\* timestamp is the first one that no queued message carries.
MidiArrive(t, raw) ==
    /\ Len(track_chan[1]) < CHANNEL_MAX_BUFFER
    /\ \A u \in Timestamps :
          u < t <=> \E k \in 1..Len(track_chan[1]) : track_chan[1][k][1] = u
    /\ track_chan' = [track_chan EXCEPT ![1] = Append(@, <<t, raw>>)]
    /\ UNCHANGED <<tracks, ppqn, all_events, q_pc, q_i, delta_t, instr_pc, cancel_sent,
                   dispatch_log, wait_log, delivered, cancel_seen_at>>
    /\ UNCHANGED <<bridgeVars, synthVars, libVars, recVars>>

\* The select arm that takes a message from the stream and hands it to
\* handle_midi_message; no frame is sampled or sent.
ProducerHandleMessage ==
    /\ prod_pc = "select"
    /\ synth_pc = "running"
    /\ track_chan[1] # << >>
    /\ track_chan' = [track_chan EXCEPT ![1] = Tail(@)]
    /\ LET raw == Head(track_chan[1])[2]
           msg == MidiMessage_try_from(raw)
       IN  /\ last_message' = raw
           /\ prev_notes' = notes_playing
           /\ IF msg.kind = "Err"
              THEN /\ synth_pc' = "panicked"
                   /\ UNCHANGED <<notes_playing, fresh_keys, release_age>>
              ELSE /\ notes_playing' = handle_parsed(notes_playing, msg)
                   /\ fresh_keys' = fresh_after(msg)
                   /\ release_age' = release_age_after(msg)
                   /\ UNCHANGED synth_pc
    /\ UNCHANGED <<frames_sampled, frame, start_notes>>
    /\ UNCHANGED <<tracks, ppqn, all_events, q_pc, q_i, delta_t, instr_pc, cancel_sent,
                   dispatch_log, wait_log, delivered, cancel_seen_at>>
    /\ UNCHANGED <<bridgeVars, libVars, recVars>>

-----------------------------------------------------------------------------
(***************************************************************************)
(* ticks_to_duration as a library function (lib.rs exports it): a caller   *)
(* hands it any delta_t of 0 .. MaxDeltaT ticks.  MaxDeltaT covers gaps of *)
(* more than two seconds at 120 bpm and 480 ticks per quarter note.        *)
(***************************************************************************)
MaxDeltaT == 2000

DurationInit ==
    /\ dur_delta_t = 0
    /\ dur_result = << >>

TicksToDuration(dt) ==
    /\ dur_delta_t' = dt
    /\ dur_result' = <<ticks_to_duration(Bpm, ppqn, dt)>>
    /\ UNCHANGED <<waveVars, oscVars>>
    /\ UNCHANGED <<bridgeVars, synthVars, midiVars, recVars>>

-----------------------------------------------------------------------------
(***************************************************************************)
(* The wave tables.  A table holds WAVE_TABLE_SIZE samples (1 << 16 in the *)
(* program, scaled down here), kept in hundredths; index i of the code is  *)
(* position i + 1 of the sequence.  The generators are evaluated at        *)
(* t = i / WAVE_TABLE_SIZE.                                                *)
(***************************************************************************)
WAVE_TABLE_SIZE == 4
NumThreads == 2
MaxWaveCalls == 3

Shapes == {"square", "sawtooth", "triangle", "sine"}
Threads == 1..NumThreads

\* if t > 0.5 { 1.0 } else { -1.0 }
square_wave(i) == IF 2 * i > WAVE_TABLE_SIZE THEN 100 ELSE -100

\* 2.0 * (t % 1.0) - 1.0
sawtooth_wave(i) == (200 * (i % WAVE_TABLE_SIZE)) \div WAVE_TABLE_SIZE - 100

\* 2.0 * sawtooth_wave(t).abs() - 1.0
triangle_wave(i) ==
    LET saw == sawtooth_wave(i)
    IN  2 * (IF saw < 0 THEN -saw ELSE saw) - 100

\* (2.0 * PI * t).sin(), by Bhaskara's rational approximation of the sine
\* on a half period: sin(PI * u) ~ 16 u (1 - u) / (5 - 4 u (1 - u)).
sine_wave(i) ==
    LET h == IF 2 * i <= WAVE_TABLE_SIZE THEN 2 * i ELSE 2 * i - WAVE_TABLE_SIZE
        w == h * (WAVE_TABLE_SIZE - h)
        v == (1600 * w) \div (5 * WAVE_TABLE_SIZE * WAVE_TABLE_SIZE - 4 * w)
    IN  IF 2 * i <= WAVE_TABLE_SIZE THEN v ELSE -v

\* The wave_fn that get_<shape>_wave hands to init_wave.
wave_fn(shape, i) ==
    IF shape = "square" THEN square_wave(i)
    ELSE IF shape = "sawtooth" THEN sawtooth_wave(i)
    ELSE IF shape = "triangle" THEN triangle_wave(i)
    ELSE sine_wave(i)

\* static mut <SHAPE>_WAVE: [f32; WAVE_TABLE_SIZE] = [0.0; WAVE_TABLE_SIZE]
zero_table == [i \in 1..WAVE_TABLE_SIZE |-> 0]

\* init_wave(wave_fn, table): *item = wave_fn(i / WAVE_TABLE_SIZE) for every i.
init_wave(shape) == [i \in 1..WAVE_TABLE_SIZE |-> wave_fn(shape, i - 1)]

WaveInit ==
    /\ INIT = "new"
    /\ wave_tables = [sh \in Shapes |-> zero_table]
    /\ wave_pc = [th \in Threads |-> "idle"]
    /\ wave_shape = [th \in Threads |-> "sine"]
    /\ wave_result = [th \in Threads |-> << >>]
    /\ wave_calls = 0

\* A thread calls get_<shape>_wave.
GetWaveCall(th, shape) ==
    /\ wave_pc[th] = "idle"
    /\ wave_calls < MaxWaveCalls
    /\ wave_calls' = wave_calls + 1
    /\ wave_pc' = [wave_pc EXCEPT ![th] = "call_once"]
    /\ wave_shape' = [wave_shape EXCEPT ![th] = shape]
    /\ UNCHANGED <<INIT, wave_tables, wave_result>>
    /\ UNCHANGED <<durationVars, oscVars>>
    /\ UNCHANGED <<bridgeVars, synthVars, midiVars, recVars>>

\* INIT.call_once(|| init_wave(<shape>_wave, &mut <SHAPE>_WAVE[..])): the
\* closure runs if no call_once on INIT has run a closure before; Once keeps
\* every other caller waiting while it runs, so it runs in one step.
CallOnce(th) ==
    /\ wave_pc[th] = "call_once"
    /\ IF INIT = "new"
       THEN /\ wave_tables' = [wave_tables EXCEPT ![wave_shape[th]] = init_wave(wave_shape[th])]
            /\ INIT' = "done"
       ELSE UNCHANGED <<INIT, wave_tables>>
    /\ wave_pc' = [wave_pc EXCEPT ![th] = "copy"]
    /\ UNCHANGED <<wave_shape, wave_result, wave_calls>>
    /\ UNCHANGED <<durationVars, oscVars>>
    /\ UNCHANGED <<bridgeVars, synthVars, midiVars, recVars>>

\* The tail expression <SHAPE>_WAVE: the call returns a copy of the table.
ReturnTable(th) ==
    /\ wave_pc[th] = "copy"
    /\ wave_result' = [wave_result EXCEPT
                          ![th] = <<[shape |-> wave_shape[th],
                                     table |-> wave_tables[wave_shape[th]]]>>]
    /\ wave_pc' = [wave_pc EXCEPT ![th] = "idle"]
    /\ UNCHANGED <<INIT, wave_tables, wave_shape, wave_calls>>
    /\ UNCHANGED <<durationVars, oscVars>>
    /\ UNCHANGED <<bridgeVars, synthVars, midiVars, recVars>>

-----------------------------------------------------------------------------
(***************************************************************************)
(* WaveTableIndex.  Its two f32 fields are kept exactly, as integers in    *)
(* units of 2^-24: for the sample rates and frequencies explored every     *)
(* indices_per_sample is at least 0.5, so it and every index reached from  *)
(* it are whole numbers of that unit.                                      *)
(***************************************************************************)
MaxSampleHz == 6
MaxHz == 5
MaxOscSamples == 6

\* 1.0f32 in units of 2^-24.
IndexOne == 16777216

\* The f32 quotient n / d of two whole numbers, rounded to nearest, ties to
\* the even mantissa.
f32_div(n, d) ==
    LET num == n * IndexOne
        q   == f32_ulp(num \div d, 1)
        lo  == num \div (d * q)
        rem == num % (d * q)
        m   == IF 2 * rem > d * q \/ (2 * rem = d * q /\ lo % 2 = 1) THEN lo + 1 ELSE lo
    IN  m * q

\* WAVE_TABLE_SIZE as f32 / sample_hz
table_sample_conversion_factor(sample_hz) == f32_div(WAVE_TABLE_SIZE, sample_hz)

\* WaveTableIndex::from_hz: new(0.0, hz * table_sample_conversion_factor(sample_hz)).
from_hz(sample_hz, hz) ==
    [index |-> 0,
     indices_per_sample |-> f32_round(hz * table_sample_conversion_factor(sample_hz))]

\* self.index.floor() as usize
floor_as_usize(x) == x \div IndexOne

\* An advance that leaves out the reduction modulo the table length.
next_index_unreduced(w, len) == f32_round(w.index + w.indices_per_sample)

\* (self.index + self.indices_per_sample) % table.len() as f32: the sum is
\* rounded to f32, its remainder is exact.
next_index(w, len) == f32_round(w.index + w.indices_per_sample) % (len * IndexOne)

OscInit ==
    /\ table_index = << >>
    /\ osc_args = << >>
    /\ osc_lookup = -1
    /\ osc_pc = "running"
    /\ osc_samples = 0

\* A note starts: its WaveTableIndex is made for a frequency and a rate.
FromHz(sample_hz, hz) ==
    /\ osc_pc = "running"
    /\ table_index' = <<from_hz(sample_hz, hz)>>
    /\ osc_args' = <<sample_hz, hz>>
    /\ osc_lookup' = -1
    /\ osc_samples' = 0
    /\ UNCHANGED osc_pc
    /\ UNCHANGED <<durationVars, waveVars>>
    /\ UNCHANGED <<bridgeVars, synthVars, midiVars, recVars>>

\* WaveTableIndex::sample_table on a table of WAVE_TABLE_SIZE entries: the
\* read panics when the position is not inside the table.
SampleTable ==
    /\ osc_pc = "running"
    /\ table_index # << >>
    /\ osc_samples < MaxOscSamples
    /\ osc_samples' = osc_samples + 1
    /\ LET w == table_index[1]
           at == floor_as_usize(w.index)
       IN  /\ osc_lookup' = at
           /\ IF at < WAVE_TABLE_SIZE
              THEN /\ table_index' = <<[w EXCEPT !.index = next_index(w, WAVE_TABLE_SIZE)]>>
                   /\ UNCHANGED osc_pc
              ELSE /\ osc_pc' = "panicked"
                   /\ UNCHANGED table_index
    /\ UNCHANGED osc_args
    /\ UNCHANGED <<durationVars, waveVars>>
    /\ UNCHANGED <<bridgeVars, synthVars, midiVars, recVars>>

-----------------------------------------------------------------------------
(***************************************************************************)
(* The recording sink: RecordingOutputStream, its writer task              *)
(* (buffered_file_writer_task), and the teardown of the task that owns     *)
(* it: the end of Instrument::play_midi, or Synthesizer::close.  Frames    *)
(* are numbered 1, 2, ...                                                  *)
(***************************************************************************)
MaxRecFrames == 4

TeardownPaths == {"play_midi", "close"}

\* RecordingOutputStream::connect: the channels are made, the task spawned.
RecInit ==
    /\ rec_pc = "running"
    /\ sample_chan = << >>
    /\ exit_chan = "open"
    /\ written = << >>
    /\ accepted = << >>
    /\ td_pc = "select"
    /\ td_path = "none"
    /\ teardown_log = << >>

\* A buffer request is handled: the frame is sampled and goes to the output
\* device, which never waits; then it is handed to write_frame.
HandleRequestWithRecorder ==
    /\ td_pc = "select"
    /\ Len(accepted) < MaxRecFrames
    /\ td_pc' = "write_frame"
    /\ UNCHANGED <<rec_pc, sample_chan, exit_chan, written, accepted, td_path,
                   teardown_log>>
    /\ UNCHANGED <<bridgeVars, synthVars, midiVars, libVars>>

\* mpsc::Sender::send(frame).await on the sample channel.
write_frame_result ==
    IF rec_pc # "running" THEN "Closed"
    ELSE IF Len(sample_chan) >= CHANNEL_MAX_BUFFER THEN "Full"
    ELSE "Ok"

\* RecordingOutputStream::write_frame: the send completes once the channel
\* has room, and an error of the send is a panic.
WriteFrame ==
    /\ td_pc = "write_frame"
    /\ write_frame_result # "Full"
    /\ IF write_frame_result = "Ok"
       THEN /\ sample_chan' = Append(sample_chan, Len(accepted) + 1)
            /\ accepted' = Append(accepted, Len(accepted) + 1)
            /\ td_pc' = "select"
       ELSE /\ td_pc' = "panicked"
            /\ UNCHANGED <<sample_chan, accepted>>
    /\ UNCHANGED <<rec_pc, exit_chan, written, td_path, teardown_log>>
    /\ UNCHANGED <<bridgeVars, synthVars, midiVars, libVars>>

\* The exit arm of the task's select! is ready: it does not look at the
\* sample channel.
exit_arm_ready == exit_chan # "open"

\* The sample arm of the writer task: one frame is written to the file.
RecorderWriteFrame ==
    /\ rec_pc = "running"
    /\ sample_chan # << >>
    /\ written' = Append(written, Head(sample_chan))
    /\ sample_chan' = Tail(sample_chan)
    /\ UNCHANGED <<rec_pc, exit_chan, accepted, td_pc, td_path, teardown_log>>
    /\ UNCHANGED <<bridgeVars, synthVars, midiVars, libVars>>

\* The exit arm: on the signal the loop ends and the writer is finalized;
\* on a sender that was dropped the expect panics.  Either way the task
\* ends and what is left in the sample channel stays there.
RecorderExit ==
    /\ rec_pc = "running"
    /\ exit_arm_ready
    /\ IF exit_chan = "sent"
       THEN /\ rec_pc' = "finalized"
            /\ teardown_log' = Append(teardown_log, "recorder_finalized")
       ELSE /\ rec_pc' = "panicked"
            /\ UNCHANGED teardown_log
    /\ UNCHANGED <<sample_chan, exit_chan, written, accepted, td_pc, td_path>>
    /\ UNCHANGED <<bridgeVars, synthVars, midiVars, libVars>>

\* The owner is interrupted and leaves its loop (instrument.rs:142-149,
\* server.rs:61-66); path is the teardown that follows.
Interrupt(path) ==
    /\ td_pc = "select"
    /\ td_pc' = "interrupted"
    /\ td_path' = path
    /\ UNCHANGED <<rec_pc, sample_chan, exit_chan, written, accepted, teardown_log>>
    /\ UNCHANGED <<bridgeVars, synthVars, midiVars, libVars>>

\* Synthesizer::close, line 154: self.recording.map(|r| r.close()).  close
\* is an async fn and its future is not awaited: nothing of it runs, and the
\* RecordingOutputStream is dropped with it, the exit sender included.
DropCloseFuture ==
    /\ td_pc = "interrupted"
    /\ td_path = "close"
    /\ exit_chan' = "closed"
    /\ td_pc' = "recorder_dropped"
    /\ UNCHANGED <<rec_pc, sample_chan, written, accepted, td_path, teardown_log>>
    /\ UNCHANGED <<bridgeVars, synthVars, midiVars, libVars>>

\* midi_input_stream.close() (instrument.rs:153), self.midi_input.close()
\* (synthesizer.rs:155).
CloseMidiInput ==
    /\ \/ td_pc = "interrupted" /\ td_path = "play_midi"
       \/ td_pc = "recorder_dropped"
    /\ td_pc' = "midi_closed"
    /\ teardown_log' = Append(teardown_log, "midi_closed")
    /\ UNCHANGED <<rec_pc, sample_chan, exit_chan, written, accepted, td_path>>
    /\ UNCHANGED <<bridgeVars, synthVars, midiVars, libVars>>

\* RecordingOutputStream::close, lines 45-47: the exit signal is sent; the
\* expect fails when the task has ended already.
SignalRecorder ==
    /\ td_pc = "midi_closed"
    /\ td_path = "play_midi"
    /\ IF rec_pc = "running"
       THEN /\ exit_chan' = "sent"
            /\ td_pc' = "joining"
            /\ teardown_log' = Append(teardown_log, "recorder_signalled")
       ELSE /\ td_pc' = "panicked"
            /\ UNCHANGED <<exit_chan, teardown_log>>
    /\ UNCHANGED <<rec_pc, sample_chan, written, accepted, td_path>>
    /\ UNCHANGED <<bridgeVars, synthVars, midiVars, libVars>>

\* The owner returns: play_midi once join_handle.await has completed (lines
\* 48-50 of recording.rs), close after its second line.  What it owned is
\* dropped, the audio device stream with it.
ReturnAndRelease ==
    /\ \/ td_pc = "joining" /\ rec_pc = "finalized"
       \/ td_pc = "midi_closed" /\ td_path = "close"
    /\ td_pc' = "returned"
    /\ teardown_log' = Append(teardown_log, "device_released")
    /\ UNCHANGED <<rec_pc, sample_chan, exit_chan, written, accepted, td_path>>
    /\ UNCHANGED <<bridgeVars, synthVars, midiVars, libVars>>

-----------------------------------------------------------------------------
(***************************************************************************)
(* The specifications.                                                     *)
(***************************************************************************)
\* A subsystem that a specification does not run: a file without events.
MidiIdle == MidiInitOn({[tr \in TrackNums |-> << >>]})

LibInit == DurationInit /\ WaveInit /\ OscInit /\ RecInit

Init == BridgeInit /\ SynthInit /\ MidiIdle /\ LibInit

Next ==
    \/ \E len \in 0..MaxDataLen : CallbackInvoke(len)
    \/ CallbackPayDebt
    \/ CallbackSendRequest
    \/ CallbackRecvFrame
    \/ CallbackConsume
    \/ ProducerBufferAhead
    \/ ProducerRecvRequest
    \/ ProducerSendFrame
    \/ ProducerExit

Spec == Init /\ [][Next]_vars

SynthNext ==
    \/ \E raw \in RawMessages : HandleMidiMessage(raw)
    \/ SampleNotes

SpecSynth == Init /\ [][SynthNext]_vars

VoiceNext ==
    \/ \E raw \in RawMessages : Monophonic(raw) /\ HandleMidiMessage(raw)
    \/ SendFrame

SpecVoice == Init /\ [][VoiceNext]_vars

\* A player that never releases a key: no note-off, no note-on of velocity 0.
Sustains(raw) ==
    LET msg == MidiMessage_try_from(raw)
    IN  msg.kind # "NoteOff" /\ (msg.kind = "NoteOn" => msg.velocity > 0)

SustainedNext ==
    \/ \E raw \in RawMessages : Sustains(raw) /\ Monophonic(raw) /\ HandleMidiMessage(raw)
    \/ SendFrame

\* Buffer requests keep arriving while the output device plays.
SpecSustained == Init /\ [][SustainedNext]_vars /\ WF_vars(SendFrame)

ReplayInit == BridgeInit /\ SynthInit /\ MidiInit /\ LibInit

\* The replay while no cancellation is ever broadcast.
UncancelledNext ==
    \/ QuantizeStart
    \/ QuantizeSendBatched
    \/ QuantizeDelayElapsed
    \/ QuantizeSendLast
    \/ \E tr \in TrackNums : InstrumentRecv(tr)

ReplayNext ==
    \/ UncancelledNext
    \/ QuantizeCancelled
    \/ \E tr \in TrackNums : InstrumentCancelled(tr)
    \/ CancelBroadcast

SpecReplay == ReplayInit /\ [][ReplayNext]_vars

\* The runtime polls every task that can make progress, and a timer that
\* was set fires.
ReplayFairness ==
    /\ WF_vars(QuantizeStart)
    /\ WF_vars(QuantizeSendBatched)
    /\ WF_vars(QuantizeDelayElapsed)
    /\ WF_vars(QuantizeSendLast)
    /\ \A tr \in TrackNums : WF_vars(InstrumentRecv(tr))

SpecUncancelled == ReplayInit /\ [][UncancelledNext]_vars /\ ReplayFairness

DurationNext == \E dt \in 0..MaxDeltaT : TicksToDuration(dt)

SpecDuration == Init /\ [][DurationNext]_vars

WaveNext ==
    \/ \E th \in Threads, shape \in Shapes : GetWaveCall(th, shape)
    \/ \E th \in Threads : CallOnce(th)
    \/ \E th \in Threads : ReturnTable(th)

SpecWave == Init /\ [][WaveNext]_vars

\* The event loop while it is not interrupted; the device asks for whole
\* frames.
ProducerNext ==
    \/ CallbackInvoke(FRAME_SIZE)
    \/ CallbackPayDebt
    \/ CallbackSendRequest
    \/ CallbackRecvFrame
    \/ CallbackConsume
    \/ ProducerBufferAhead
    \/ SynthBufferAhead
    \/ \E t \in Timestamps, raw \in NoteEvents : MidiArrive(t, raw)
    \/ ProducerHandleMessage
    \/ ProducerRecvRequest
    \/ ProducerSendFrame

\* A select that takes the first arm whenever it is ready: nothing makes it
\* look at the buffer requests.
FirstArmFairness ==
    /\ WF_vars(ProducerBufferAhead \/ SynthBufferAhead)
    /\ SF_vars(ProducerHandleMessage)
    /\ WF_vars(ProducerSendFrame)

\* select! picks at random among the arms that are ready, so an arm that is
\* ready again and again is taken; a frame that is being sampled is sent,
\* and the function gets to its loop.
ProducerFairness ==
    /\ WF_vars(ProducerBufferAhead \/ SynthBufferAhead)
    /\ SF_vars(ProducerHandleMessage)
    /\ SF_vars(ProducerRecvRequest)
    /\ WF_vars(ProducerSendFrame)

SpecProducer == Init /\ [][ProducerNext]_vars /\ ProducerFairness

RecorderNext ==
    \/ HandleRequestWithRecorder
    \/ WriteFrame
    \/ RecorderWriteFrame
    \/ RecorderExit
    \/ \E path \in TeardownPaths : Interrupt(path)
    \/ DropCloseFuture
    \/ CloseMidiInput
    \/ SignalRecorder
    \/ ReturnAndRelease

SpecRecorder == Init /\ [][RecorderNext]_vars

OscNext ==
    \/ \E sample_hz \in 1..MaxSampleHz, hz \in 1..MaxHz : FromHz(sample_hz, hz)
    \/ SampleTable

SpecOsc == Init /\ [][OscNext]_vars

-----------------------------------------------------------------------------
(***************************************************************************)
(* The realtime buffer bridge: properties.                                 *)
(***************************************************************************)

\* C1: no buffer request is lost.  Every request attempted for an empty
\* LeftoverBuffer was either sent or is still owed as debt, across
\* invocations: sent + debt = attempts.
C1_DebtNeverLost ==
    requests_sent + buffer_request_debt = request_attempts

\* C2: with a request channel of capacity 1 and a producer that received
\* nothing during the first three invocations, the debt after them is the
\* number of requests that could not be sent; and whenever the callback has
\* returned with no debt and the producer has drained the channel, the
\* producer has received as many requests as were attempted.
C2_DebtAfterThreeInvocations ==
    /\ (cb_pc = "idle" /\ invocations = 3 /\ requests_received = 0)
          => buffer_request_debt = request_attempts - requests_sent
    /\ (cb_pc = "idle" /\ buffer_request_debt = 0 /\ buffer_request_chan = 0)
          => requests_received = request_attempts

\* C3: when the frame channel is empty the invocation stops filling at once,
\* neither blocked nor panicked, and on return everything at or after
\* items_fulfilled is 0.0; consume on an empty LeftoverBuffer returns 0 and
\* writes nothing.
C3_SilentTail ==
    (cb_pc = "idle" /\ last_recv = "Empty")
       => \A i \in 1..Len(data) : i > items_fulfilled => data[i] = 0

C3_RecvNeverBlocks == cb_pc = "recv" => ENABLED CallbackRecvFrame

C3_StopOnEmpty ==
    (cb_pc = "recv" /\ cb_pc' # "recv" /\ try_recv_result = "Empty")
       => /\ cb_pc' = "idle"
          /\ data' = data
          /\ items_fulfilled' = items_fulfilled

C3_ConsumeOnEmpty ==
    (cb_pc = "consume" /\ cb_pc' # "consume" /\ is_empty(leftover_buffer))
       => /\ items_fulfilled' = items_fulfilled
          /\ data' = data
          /\ leftover_buffer' = leftover_buffer

C3_SilenceWhenNoFrame ==
    /\ [](C3_SilentTail /\ C3_RecvNeverBlocks)
    /\ [][C3_StopOnEmpty /\ C3_ConsumeOnEmpty]_vars

\* An invocation that delivered part of a frame and then found the frame
\* channel empty.
C3_Witness ==
    /\ cb_pc = "idle"
    /\ last_recv = "Empty"
    /\ 0 < items_fulfilled
    /\ items_fulfilled < Len(data)
    /\ data[1] # 0

\* consume is called on an empty LeftoverBuffer (after a Lagged receive).
ConsumeOnEmptyHappens == cb_pc = "consume" /\ is_empty(leftover_buffer)

\* The loop turns an invocation needs while nothing else touches the
\* channels: for every frame it takes, a Lagged and then an Ok, and a last
\* turn that breaks.
TurnsNeeded(len) == 2 * ((len + FRAME_SIZE - 1) \div FRAME_SIZE) + 1

\* C27: every invocation of the callback ends after a bounded number of loop
\* turns, for every data_out length and every state of the channels; the
\* path that receives Lagged without refilling the LeftoverBuffer cannot
\* keep the loop turning.  request_attempts counts the turns that found the
\* LeftoverBuffer empty, over all invocations: the ones before this one
\* had data_out of MaxDataLen at most.
C27_BoundedTurns ==
    invocations >= 1 =>
        request_attempts <= (invocations - 1) * TurnsNeeded(MaxDataLen)
                              + TurnsNeeded(Len(data))

\* What holds: the callback never waits, at any position some step of it is
\* possible.
CallbackNeverBlocks ==
    /\ cb_pc = "pay" => ENABLED CallbackPayDebt
    /\ cb_pc = "request" => ENABLED CallbackSendRequest
    /\ cb_pc = "recv" => ENABLED CallbackRecvFrame
    /\ cb_pc = "consume" => ENABLED CallbackConsume

C28_CursorInRange == leftover_buffer.cursor \in 0..FRAME_SIZE

\* The samples delivered in this invocation are samples of frames, in the
\* order of the frames and of their samples; where the run goes from one
\* frame to another no sample of either is left out, and the last one
\* delivered is the one before the cursor.
C28_DeliveredInOrder ==
    /\ \A i \in 1..items_fulfilled : data[i] > 0
    /\ \A i \in 1..(items_fulfilled - 1) :
          \/ data[i + 1] = data[i] + 1
          \/ /\ data[i + 1] > data[i]
             /\ data[i] % FRAME_SIZE = 0
             /\ data[i + 1] % FRAME_SIZE = 1 % FRAME_SIZE
    /\ (items_fulfilled > 0 /\ leftover_buffer.cursor > 0)
          => data[items_fulfilled] = leftover_buffer.buffer[leftover_buffer.cursor]

\* A frame overwrites the buffer only when the cursor is at FRAME_SIZE; it
\* is the frame at the head of the channel, and the cursor goes to 0.
C28_OverwriteWhenEmpty ==
    leftover_buffer'.buffer # leftover_buffer.buffer
       => /\ leftover_buffer.cursor = FRAME_SIZE
          /\ frame_chan # << >>
          /\ leftover_buffer' = [buffer |-> AudioFrame(Head(frame_chan)), cursor |-> 0]

\* Whatever is written to data is copied from the cursor on, and the cursor
\* moves by as much: as many samples as are left over or fit.  A new
\* invocation finds the buffer and the cursor as the last one left them.
C28_CopyFromCursor ==
    /\ (cb_pc = "consume" /\ cb_pc' # "consume") =>
          LET n == Min(FRAME_SIZE - leftover_buffer.cursor, Len(data) - items_fulfilled)
          IN  /\ items_fulfilled' = items_fulfilled + n
              /\ leftover_buffer' = [leftover_buffer EXCEPT !.cursor = @ + n]
              /\ \A i \in 1..Len(data) :
                    data'[i] = IF i > items_fulfilled /\ i <= items_fulfilled + n
                               THEN leftover_buffer.buffer[leftover_buffer.cursor
                                                             + (i - items_fulfilled)]
                               ELSE data[i]
    /\ (cb_pc # "consume" \/ cb_pc' = "consume") =>
          /\ items_fulfilled' # items_fulfilled => invocations' # invocations
          /\ leftover_buffer'.cursor # leftover_buffer.cursor => leftover_buffer'.cursor = 0
          /\ invocations' = invocations => data' = data
    /\ invocations' # invocations => leftover_buffer' = leftover_buffer

\* C28: across invocations with any data_out lengths, the samples written
\* to the device are the samples of the fetched frames in fetch order, each
\* delivered once, none skipped or repeated, a frame's unconsumed tail
\* carried to the next invocation; the cursor stays in [0, FRAME_SIZE] and a
\* new frame overwrites the buffer only when the cursor is FRAME_SIZE.
C28_SamplesInOrder ==
    /\ [](C28_CursorInRange /\ C28_DeliveredInOrder)
    /\ [][C28_OverwriteWhenEmpty /\ C28_CopyFromCursor]_vars

\* An invocation that asked for more than a frame got the tail the one
\* before it had left (sample 2 of frame 1) and then the next frame.
C28_Witness ==
    /\ cb_pc = "idle"
    /\ invocations >= 2
    /\ Len(data) > FRAME_SIZE
    /\ items_fulfilled = Len(data)
    /\ data[1] = 2
    /\ data[2] = FRAME_SIZE + 1

\* C29: in the closed loop of callback and producer the frames queued in the
\* frame channel never exceed its capacity, also after underruns; the
\* device receiver never observes Lagged and no produced frame is dropped
\* unplayed.
C29_NeverLagged ==
    /\ Len(frame_chan) <= CHANNEL_MAX_BUFFER
    /\ frame_lag = 0
    /\ last_recv # "Lagged"

\* The unfilled remainder of data is zero.
RemainderIsZero == \A i \in 1..Len(data) : i > items_fulfilled => data[i] = 0

\* C30: when the producer closes the buffer request channel, at whatever
\* moment, the callback stops filling and returns with the unfilled
\* remainder of data_out at zero; it never panics, whether it finds the
\* channel closed when it sends a new request or when it pays down debt.
C30_ClosedNeverPanics ==
    /\ cb_pc # "panicked"
    /\ RemainderIsZero

\* What holds: a closed channel found when a new request is sent ends the
\* invocation at once.
ClosedOnRequestReturns ==
    (cb_pc = "request" /\ buffer_request_closed /\ cb_pc' # cb_pc)
       => cb_pc' = "idle" /\ data' = data /\ items_fulfilled' = items_fulfilled

ClosedOnRequestStep == [][ClosedOnRequestReturns]_vars

-----------------------------------------------------------------------------
(***************************************************************************)
(* The synthesis engine: properties.                                       *)
(***************************************************************************)
VoicesOf(map, key) == {e \in map : e.key = key}

\* C4: the active-voices mapping holds at most one Voice per key, and a
\* note-on with velocity > 0 leaves exactly one Voice for its key, a fresh
\* one (the new velocity, stop_requested false, attack restarted), whether
\* or not the key was sounding; the other keys' voices are untouched.
C4_OneVoicePerKey ==
    /\ \A e1, e2 \in notes_playing : e1.key = e2.key => e1 = e2
    /\ (Len(last_message) = 3 /\ last_message[1] = 144 /\ last_message[3] > 0)
          => /\ VoicesOf(notes_playing, last_message[2]) =
                  {[key  |-> last_message[2],
                    note |-> [stop_requested |-> FALSE, decay_factor |-> F32_ONE,
                              attack_factor |-> 0, velocity |-> last_message[3]]]}
             /\ notes_playing \ VoicesOf(notes_playing, last_message[2]) =
                  prev_notes \ VoicesOf(prev_notes, last_message[2])

\* note-on(60, 100) arrived while key 60 was sounding at velocity 64 and
\* had been sampled: one Voice for key 60 is left.
C4_Witness ==
    /\ last_message = <<144, 60, 100>>
    /\ \E e \in prev_notes : e.key = 60 /\ e.note.velocity = 64
    /\ Cardinality(VoicesOf(notes_playing, 60)) = 1
    /\ \E e \in notes_playing : e.key = 60 /\ e.note.velocity = 100

\* The message handled last: its kind, and whether it asks to stop a key.
LastKind == IF last_message = << >> THEN "None" ELSE MidiMessage_try_from(last_message).kind

LastIsZeroNoteOn == LastKind = "NoteOn" /\ last_message[3] = 0

\* map with stop_requested set on the Voice of key, if it has one.
WithStopRequested(map, key) ==
    {e \in map : e.key # key}
       \cup {[key |-> key, note |-> [stop_requested |-> TRUE,
                                     decay_factor |-> e.note.decay_factor,
                                     attack_factor |-> e.note.attack_factor,
                                     velocity |-> e.note.velocity]] :
               e \in VoicesOf(map, key)}

\* C13: a note-on with velocity 0 has exactly the effect of a note-off for
\* its key, in every engine state: stop_requested is set on the key's Voice
\* if one is sounding, no Voice is created or replaced, and nothing else
\* (the other voices, the frame, the engine's run state) changes.
C13_ZeroVelocityEffect ==
    LastIsZeroNoteOn =>
       /\ notes_playing = WithStopRequested(prev_notes, last_message[2])
       /\ Keys(notes_playing) = Keys(prev_notes)
       /\ \A v \in 0..127 :
             notes_playing = handle_parsed(prev_notes,
                                [kind |-> "NoteOff", key |-> last_message[2], velocity |-> v])
       /\ synth_pc = "running"

C13_ZeroVelocityStep ==
    (last_message' # << >> /\ MidiMessage_try_from(last_message').kind = "NoteOn"
       /\ last_message'[3] = 0 /\ synth_pc = "running")
    => UNCHANGED <<synth_pc, frame, frames_sampled, start_notes>>

C13_ZeroVelocityIsNoteOff ==
    /\ []C13_ZeroVelocityEffect
    /\ [][C13_ZeroVelocityStep]_vars

\* note-on(60, 0) arrived while keys 60 and 61 were sounding, 60 not yet
\* stopped: the Voice of 60 is now stopped, the one of 61 is as before.
C13_Witness ==
    /\ last_message = <<144, 60, 0>>
    /\ \E e \in prev_notes : e.key = 60 /\ ~e.note.stop_requested /\ e.note.attack_factor > 0
    /\ \E e \in notes_playing : e.key = 60 /\ e.note.stop_requested
    /\ \E e \in notes_playing : e.key = 61 /\ ~e.note.stop_requested

\* C14: a note-off, or a note-on with velocity 0, for a key that is not
\* sounding leaves the mapping and every Voice unchanged; a note-off for a
\* sounding key changes only the stop_requested flag of that key's Voice.
C14_StopFrame ==
    /\ ((LastKind = "NoteOff" \/ LastIsZeroNoteOn) /\ last_message[2] \notin Keys(prev_notes))
          => notes_playing = prev_notes
    /\ (LastKind = "NoteOff" /\ last_message[2] \in Keys(prev_notes))
          => /\ Keys(notes_playing) = Keys(prev_notes)
             /\ \A e \in prev_notes : e.key # last_message[2] => e \in notes_playing
             /\ \A e \in notes_playing : e.key # last_message[2] => e \in prev_notes
             /\ \A e \in VoicesOf(notes_playing, last_message[2]) :
                   /\ e.note.stop_requested
                   /\ \E o \in VoicesOf(prev_notes, last_message[2]) :
                         /\ o.note.decay_factor = e.note.decay_factor
                         /\ o.note.attack_factor = e.note.attack_factor
                         /\ o.note.velocity = e.note.velocity

\* A note-off for key 60 arrived while keys 60 and 61 were sounding and had
\* been sampled.
C14_Witness ==
    /\ LastKind = "NoteOff"
    /\ last_message[2] = 60
    /\ \E e \in prev_notes : e.key = 60 /\ ~e.note.stop_requested /\ e.note.attack_factor > 0
    /\ \E e \in prev_notes : e.key = 61
    /\ \E e \in notes_playing : e.key = 60 /\ e.note.stop_requested

\* A stop for a key that is not sounding, while another key is.
StopOfSilentKeyHappens ==
    /\ (LastKind = "NoteOff" \/ LastIsZeroNoteOn)
    /\ last_message[2] \notin Keys(prev_notes)
    /\ prev_notes # {}

\* C15: a 3-byte message that is not a note-on or a note-off, malformed ones
\* included, is ignored: the handler returns normally (the engine keeps
\* running) and the active-voices mapping is unchanged.
C15_OtherMessagesIgnored ==
    (last_message # << >> /\ LastKind \notin {"NoteOn", "NoteOff"})
       => /\ synth_pc = "running"
          /\ notes_playing = prev_notes

\* The part that holds: a message that parses to another kind is ignored.
UnsupportedKindsIgnored ==
    (last_message # << >> /\ LastKind \notin {"NoteOn", "NoteOff", "Err"})
       => /\ synth_pc = "running"
          /\ notes_playing = prev_notes

RECURSIVE UpdatesUntilBelow(_)
\* How many times the release rate has to be taken off d, in f32, until the
\* result is below the threshold of 0.05.
UpdatesUntilBelow(d) ==
    IF d < DONE_BELOW THEN 0 ELSE 1 + UpdatesUntilBelow(f32_round(d - DECAY_STEP))

\* The count for a decay_factor that starts at 1.0: 19, since the 19th f32
\* difference is 0.04999984.
ReleaseUpdates == UpdatesUntilBelow(F32_ONE)

RECURSIVE UpdatesToDone(_)
\* The envelope updates after which a note is done playing.
UpdatesToDone(n) ==
    IF done_playing(update_after_buffer(n)) THEN 1
    ELSE 1 + UpdatesToDone(update_after_buffer(n))

\* C16: a Voice that is released before its first envelope update is Silent
\* after a fixed number of updates, given by the release rate and the 0.05
\* threshold alone and the same for every velocity and key, and is removed
\* from the mapping by the update that makes it Silent, not before.
C16_ReleasedVoiceEnds ==
    /\ \A k \in KeyBytes :
          release_age[k] >= 0 =>
             /\ release_age[k] <= ReleaseUpdates
             /\ k \in Keys(notes_playing) <=> release_age[k] < ReleaseUpdates
    /\ (frame = << >> /\ last_message = << >>) =>
          \A v \in 1..127 :
             UpdatesToDone([SynthNote(v) EXCEPT !.stop_requested = TRUE]) = ReleaseUpdates

\* The Voice of key 61, velocity 100, was released while fresh and the
\* frame produced last removed it.
C16_Witness ==
    /\ release_age[61] = ReleaseUpdates
    /\ \E e \in start_notes : e.key = 61 /\ e.note.velocity = 100
    /\ 61 \notin Keys(notes_playing)
    /\ last_message = << >>

Sounding(k) == k \in Keys(notes_playing)

\* A note-on has just replaced the Voice of key k by a new one.
Restarted(k) ==
    /\ LastKind = "NoteOn"
    /\ last_message[2] = k
    /\ last_message[3] > 0

\* C17: as frames keep being produced, every Voice is eventually removed
\* from the mapping (or replaced by a new Voice for its key), whether or not
\* a note-off for its key ever arrives.
C17_EveryVoiceEnds ==
    \A k \in KeyBytes :
       []((Sounding(k) /\ last_message = << >>) => <>(~Sounding(k) \/ Restarted(k)))

\* The notes of map after their envelope update.
Updated(map) == {[e EXCEPT !.note = update_after_buffer(e.note)] : e \in map}

\* C18: voices leave the mapping only at a frame boundary: every Voice
\* present when sample_notes starts is in the sum of every sample position
\* of the frame, with the envelope it had at the start, nothing else is; and
\* when the call returns the mapping holds the updated voices except
\* exactly those that are Silent (decay_factor < 0.05).
C18_RemovalAtFrameBoundary ==
    frame # << >> =>
       /\ \A i \in SamplePositions :
             /\ \A e \in start_notes :
                   \E t \in frame[1][i].terms :
                      /\ t.key = e.key
                      /\ t.attack_factor = e.note.attack_factor
                      /\ t.decay_factor = e.note.decay_factor
                      /\ t.velocity = e.note.velocity
             /\ Cardinality(frame[1][i].terms) = Cardinality(start_notes)
       /\ last_message = << >> =>
             notes_playing = {u \in Updated(start_notes) : u.note.decay_factor >= DONE_BELOW}

\* The frame produced last sampled the Voice of key 60 at every position,
\* the last one included, and then removed it.
C18_Witness ==
    /\ frame # << >>
    /\ last_message = << >>
    /\ \E e \in start_notes : e.key = 60
    /\ notes_playing = {}
    /\ \A i \in SamplePositions : \E t \in frame[1][i].terms : t.key = 60

\* The frame produced last was produced with no active voices.
SilentCall == frame # << >> /\ start_notes = {}

\* C19: sample_notes with no active voices returns a frame of 0.0 only,
\* leaves the engine as it was, and returns the same frame again on the next
\* call; a smoothing filter at 0 stays at 0 on a 0.0 sample.
C19_SilentFrame ==
    SilentCall =>
       /\ \A i \in 1..FRAME_SIZE : frame[1][i] = [base |-> 0, terms |-> {}]
       /\ last_message = << >> => notes_playing = {}
       /\ synth_pc = "running"
       /\ \A a \in 0..100 :
             ExponentialSmoothing_apply([smoothed_value |-> 0, factor |-> a], 0)
                = [smoothed_value |-> 0, factor |-> a]

C19_SilentStep ==
    (notes_playing = {} /\ last_message' = << >> /\ frame' # << >>)
       => /\ notes_playing' = {}
          /\ SilentCall => frame' = frame
          /\ UNCHANGED <<synth_pc, bridgeVars>>

C19_SilenceIsIdempotent ==
    /\ []C19_SilentFrame
    /\ [][C19_SilentStep]_vars

\* A silent frame was produced after a Voice had sounded and ended.
C19_Witness ==
    /\ SilentCall
    /\ last_message = << >>
    /\ \E k \in KeyBytes : release_age[k] = ReleaseUpdates
    /\ \A i \in 1..FRAME_SIZE : frame[1][i].terms = {}

-----------------------------------------------------------------------------
(***************************************************************************)
(* The MIDI timeline quantizer: properties.                                *)
(***************************************************************************)
Merged == q_pc # "start"

\* The file of the scenario: track A (1) holds two events, the first at
\* tick 0 and the second 100 ticks later, track B (2) holds one event at
\* tick 50, and any further track is empty.
ScenarioFile ==
    /\ Len(tracks[1]) = 2 /\ tracks[1][1].delta = 0 /\ tracks[1][2].delta = 100
    /\ Len(tracks[2]) = 1 /\ tracks[2][1].delta = 50
    /\ \A tr \in TrackNums : tr > 2 => tracks[tr] = << >>

\* Every event of every track occurs exactly once in the timeline, the
\* timeline is ordered by absolute tick, and entries of equal tick keep the
\* order of the tracks and, within a track, the file order.
MergeIsStableSort ==
    Merged =>
      /\ \A tr \in TrackNums : \A k \in 1..Len(tracks[tr]) :
            Cardinality({i \in 1..Len(all_events) :
                           all_events[i].track = tr /\ all_events[i].pos = k}) = 1
      /\ \A i \in 1..Len(all_events) :
            /\ all_events[i].track \in TrackNums
            /\ all_events[i].pos \in 1..Len(tracks[all_events[i].track])
      /\ \A i, j \in 1..Len(all_events) : i < j =>
            /\ all_events[i].t <= all_events[j].t
            /\ all_events[i].t = all_events[j].t =>
                  \/ all_events[i].track < all_events[j].track
                  \/ /\ all_events[i].track = all_events[j].track
                     /\ all_events[i].pos < all_events[j].pos

\* C5: single_timeline_of_events returns every event exactly once, ordered
\* by absolute tick, ties in original order; and for track A with events at
\* ticks [0, 100] and track B with an event at tick 50 the result is
\* [(0,A), (50,B), (100,A)].
C5_MergedTimeline ==
    /\ MergeIsStableSort
    /\ (Merged /\ ScenarioFile) =>
          [i \in 1..Len(all_events) |-> <<all_events[i].t, all_events[i].track>>]
             = << <<0, 1>>, <<50, 2>>, <<100, 1>> >>

RECURSIVE DeltaSum(_, _)
\* delta_1 + ... + delta_k of a track.
DeltaSum(track, k) == IF k = 0 THEN 0 ELSE track[k].delta + DeltaSum(track, k - 1)

\* C6: the k-th event of a track is placed at delta_1 + ... + delta_k: every
\* event is prefixed by its own delta-time.
C6_TickIsSumOfDeltas ==
    Merged => \A i \in 1..Len(all_events) :
                 all_events[i].t = DeltaSum(tracks[all_events[i].track], all_events[i].pos)

\* Whether the event at timeline position k serializes to at most 3 bytes.
FitsRawMessage(k) == Len(SerializedBytes(event_of(all_events[k]).kind)) <= 3

RECURSIVE PositionsUpTo(_)
\* The timeline positions 1..n whose event fits a raw message, in order.
PositionsUpTo(n) ==
    IF n = 0 THEN << >>
    ELSE IF FitsRawMessage(n) THEN Append(PositionsUpTo(n - 1), n)
    ELSE PositionsUpTo(n - 1)

RECURSIVE MessagesFor(_, _)
\* The messages of track tr among the timeline positions 1..n, in order.
MessagesFor(tr, n) ==
    IF n = 0 THEN << >>
    ELSE IF FitsRawMessage(n) /\ all_events[n].track = tr
         THEN Append(MessagesFor(tr, n - 1),
                     <<all_events[n].t,
                       [j \in 1..3 |-> SerializedBytes(event_of(all_events[n]).kind)[j]]>>)
    ELSE MessagesFor(tr, n - 1)

IsPrefix(p, q) == Len(p) <= Len(q) /\ \A i \in 1..Len(p) : p[i] = q[i]

\* C7: in a replay that is never cancelled every event that serializes to
\* at most 3 bytes is dispatched exactly once, to its own track's channel
\* and to no other, in timeline order, nothing else is dispatched, and the
\* replay terminates (also for one event, one shared tick, no event).
C7_DispatchedSoFar ==
    /\ q_pc # "panicked"
    /\ Merged => IsPrefix(dispatch_log, PositionsUpTo(Len(all_events)))
    /\ ~Merged => dispatch_log = << >>
    /\ \A tr \in TrackNums :
          Len(delivered[tr]) + Len(track_chan[tr]) <= Len(MessagesFor(tr, Len(all_events)))

C7_AllDispatchedAtEnd ==
    q_pc = "done" =>
      /\ dispatch_log = PositionsUpTo(Len(all_events))
      /\ \A tr \in TrackNums :
            delivered[tr] \o track_chan[tr] = MessagesFor(tr, Len(all_events))

C7_UncancelledReplay ==
    /\ [](C7_DispatchedSoFar /\ C7_AllDispatchedAtEnd)
    /\ <>(q_pc = "done")

\* A finished replay of three events over both tracks, one of them too long
\* for a raw message.
C7_Witness ==
    /\ q_pc = "done"
    /\ Len(all_events) = 3
    /\ Len(dispatch_log) = 2
    /\ delivered[1] # << >>
    /\ delivered[2] # << >>

\* C8: (the scenario) for track A at ticks [0, 100] and track B at tick 50
\* the uncancelled replay waits 50 ticks before the tick-50 event and 50
\* ticks before the tick-100 event, and nowhere else.
C8_ScenarioWaits ==
    (ScenarioFile /\ q_pc = "done" /\ cancel_seen_at = -1) =>
       wait_log = << [before |-> 2, ticks |-> 50,
                      duration |-> ticks_to_duration(Bpm, ppqn, 50)],
                     [before |-> 3, ticks |-> 50,
                      duration |-> ticks_to_duration(Bpm, ppqn, 50)] >>

\* The waits of an uncancelled replay in general: one before each position
\* whose tick differs from the tick before it, of that difference, and none
\* between equal ticks.
WaitsBetweenDistinctTicks ==
    (q_pc = "done" /\ cancel_seen_at = -1) =>
       /\ \A w \in 1..Len(wait_log) :
             /\ wait_log[w].before \in 2..Len(all_events)
             /\ wait_log[w].ticks = all_events[wait_log[w].before].t
                                      - all_events[wait_log[w].before - 1].t
             /\ wait_log[w].ticks > 0
             /\ wait_log[w].duration = ticks_to_duration(Bpm, ppqn, wait_log[w].ticks)
       /\ \A k \in 2..Len(all_events) :
             all_events[k].t # all_events[k - 1].t =>
                Cardinality({w \in 1..Len(wait_log) : wait_log[w].before = k}) = 1

\* C9: once the quantizer has observed the cancellation it dispatches no
\* further event.
C9_NoDispatchAfterCancel ==
    cancel_seen_at >= 0 => Len(dispatch_log) = cancel_seen_at

\* C10: the shutdown after a cancellation is orderly: no task panics, also
\* when an instrument dropped its receiver before the quantizer's next send.
C10_OrderlyShutdown == q_pc # "panicked"

\* The quantizer completes send_event_to_track on position q_i in this step.
QuantizerSends ==
    /\ q_pc \in {"batch", "last"}
    /\ <<q_pc, q_i>>' # <<q_pc, q_i>>

\* C12: an event that serializes to more than 3 bytes is never delivered and
\* is no error: the positions dispatched and the messages in flight or
\* received all belong to events that fit; handling such an event puts
\* nothing into any channel, does not panic and moves on as for any event;
\* the waits are the tick differences of adjacent timeline positions, the
\* oversized ones included; and an uncancelled replay that ends has
\* dispatched every other event, in order.
C12_OnlyFittingDelivered ==
    /\ \A j \in 1..Len(dispatch_log) : FitsRawMessage(dispatch_log[j])
    /\ \A tr \in TrackNums :
          \A m \in {(delivered[tr] \o track_chan[tr])[j] :
                       j \in 1..(Len(delivered[tr]) + Len(track_chan[tr]))} :
             \E k \in 1..Len(all_events) :
                /\ FitsRawMessage(k)
                /\ all_events[k].track = tr
                /\ m = <<all_events[k].t,
                         [j \in 1..3 |-> SerializedBytes(event_of(all_events[k]).kind)[j]]>>

C12_WaitsCountOversized ==
    \A w \in 1..Len(wait_log) :
       /\ wait_log[w].before \in 2..Len(all_events)
       /\ wait_log[w].ticks = all_events[wait_log[w].before].t
                                - all_events[wait_log[w].before - 1].t

C12_OthersDispatched ==
    (q_pc = "done" /\ cancel_seen_at = -1) =>
       dispatch_log = PositionsUpTo(Len(all_events))

C12_OversizedStep ==
    (QuantizerSends /\ ~FitsRawMessage(q_i)) =>
       /\ track_chan' = track_chan
       /\ dispatch_log' = dispatch_log
       /\ q_pc' # "panicked"
       /\ q_pc = "batch" => (q_i' = q_i + 1 /\ delta_t' = next_delta(q_i))
       /\ q_pc = "last" => q_pc' = "done"

C12_OversizedEventDropped ==
    /\ [](C12_OnlyFittingDelivered /\ C12_WaitsCountOversized /\ C12_OthersDispatched)
    /\ [][C12_OversizedStep]_vars

\* A finished, uncancelled replay of three events at three ticks whose
\* middle event is oversized: both others were dispatched, with a wait
\* before and after the oversized one.
C12_Witness ==
    /\ q_pc = "done"
    /\ cancel_seen_at = -1
    /\ Len(all_events) = 3
    /\ ~FitsRawMessage(2)
    /\ dispatch_log = <<1, 3>>
    /\ Len(wait_log) = 2
    /\ wait_log[1].ticks > 0
    /\ wait_log[2].ticks > 0

-----------------------------------------------------------------------------
(***************************************************************************)
(* ticks_to_duration: properties.                                          *)
(***************************************************************************)
\* floor(ms(delta_t) * 1_000_000) for ms = dt * 60000 / (bpm * pq), as its
\* whole seconds and the nanoseconds below one second.
WholeNanos(bpm, pq, dt) ==
    LET per_m == bpm * pq
        r0    == (dt * 60) % per_m
        r1    == (r0 * 1000) % per_m
        r2    == (r1 * 1000) % per_m
    IN  [secs  |-> (dt * 60) \div per_m,
         nanos |-> ((r0 * 1000) \div per_m) * 1000000
                   + ((r1 * 1000) \div per_m) * 1000 + (r2 * 1000) \div per_m]

\* C11: for every delta_t >= 0 the Duration returned by ticks_to_duration
\* is floor(ms(delta_t) * 1_000_000) nanoseconds long: its seconds are that
\* total divided by 10^9 and its nanoseconds the remainder, also for gaps of
\* one second or more.
C11_ExactDuration ==
    dur_result # << >> =>
       /\ dur_result[1] = WholeNanos(Bpm, ppqn, dur_delta_t)
       /\ dur_result[1].nanos < 1000000000

-----------------------------------------------------------------------------
(***************************************************************************)
(* The wave tables: properties.                                            *)
(***************************************************************************)
\* The table of a shape as its generator defines it.
Generated(shape) == [i \in 1..WAVE_TABLE_SIZE |-> wave_fn(shape, i - 1)]

\* C20: whatever calls of get_square_wave, get_sawtooth_wave,
\* get_triangle_wave and get_sine_wave were made before, in any order and
\* from any threads, every call returns the table of its own shape:
\* table[i] = generator(i / N).
C20_EveryTableGenerated ==
    \A th \in Threads :
       wave_result[th] # << >> =>
          wave_result[th][1].table = Generated(wave_result[th][1].shape)

\* What holds: a table is either still all 0.0 or what its generator
\* defines, and at most one of the four is ever built.
OneTableBuilt ==
    /\ \A sh \in Shapes : wave_tables[sh] \in {zero_table, Generated(sh)}
    /\ Cardinality({sh \in Shapes : wave_tables[sh] # zero_table}) <= 1
    /\ INIT = "new" => \A sh \in Shapes : wave_tables[sh] = zero_table

-----------------------------------------------------------------------------
(***************************************************************************)
(* The producer's event loop: properties.                                  *)
(***************************************************************************)
\* The buffer requests the producer has handled: received, and answered by
\* a frame.
RequestsHandled == requests_received - (IF prod_pc = "sample" THEN 1 ELSE 0)

C22_FramesSent == prod_pc # "init" => frames_produced = BUFFERS_AHEAD + RequestsHandled

C22_AheadBeforeStart ==
    (prod_pc = "init" /\ prod_pc' = "select") => frames_produced' = BUFFERS_AHEAD

C22_NoteEventSendsNoFrame ==
    (track_chan'[1] # track_chan[1] /\ Len(track_chan'[1]) < Len(track_chan[1]))
       => /\ frames_produced' = frames_produced
          /\ frame_chan' = frame_chan

\* C22: the producer sends exactly BUFFERS_AHEAD frames before the output
\* stream is started and afterwards exactly one frame for each buffer
\* request: at every point the frames sent are BUFFERS_AHEAD plus the
\* requests handled, and handling a note event sends no frame.
C22_OneFramePerRequest ==
    /\ []C22_FramesSent
    /\ [][C22_AheadBeforeStart /\ C22_NoteEventSendsNoFrame]_vars

\* What holds on both paths: one frame for each request handled after the
\* start, and none for a note event.
FramesSentInLoop ==
    /\ [](prod_pc # "init" =>
            frames_produced \in {RequestsHandled, BUFFERS_AHEAD + RequestsHandled})
    /\ [][C22_NoteEventSendsNoFrame]_vars

\* The message at the head of the stream carries timestamp t.
HeadIs(t) == track_chan[1] # << >> /\ Head(track_chan[1])[1] = t

\* A turn of the loop takes a message or a buffer request, never both.
C23_OneItemPerTurn ==
    ~(/\ Len(track_chan'[1]) < Len(track_chan[1])
      /\ requests_received' # requests_received)

\* Every buffer request that was sent is handled: received, and answered by
\* a frame.  The exploration stops the producer at MaxFrames frames.
C23_RequestsAnswered ==
    \A n \in 1..(MaxFrames - BUFFERS_AHEAD) :
        (requests_sent >= n) ~> (RequestsHandled >= n)

\* Every message leaves the head of the stream: it is handled.
C23_MessagesHandled == \A t \in Timestamps : HeadIs(t) ~> ~HeadIs(t)

\* C23: the event loop handles one item per turn and starves neither
\* source: under fair selection every buffer request in the request channel
\* is eventually answered by a produced frame, even while note events keep
\* arriving, and every note event is eventually handled, even while buffer
\* requests keep arriving.
C23_NeitherSourceStarves ==
    /\ [][C23_OneItemPerTurn]_vars
    /\ C23_RequestsAnswered
    /\ C23_MessagesHandled

\* A buffer request and a note event wait at the select together, after a
\* request and a note event have been handled.
C23_Witness ==
    /\ prod_pc = "select"
    /\ buffer_request_chan > 0
    /\ track_chan[1] # << >>
    /\ last_message # << >>
    /\ RequestsHandled >= 1

-----------------------------------------------------------------------------
(***************************************************************************)
(* The recording sink and the teardown: properties.                        *)
(***************************************************************************)
\* The place of a teardown event in teardown_log, 0 if it has not happened.
Pos(e) ==
    IF \E k \in 1..Len(teardown_log) : teardown_log[k] = e
    THEN CHOOSE k \in 1..Len(teardown_log) : teardown_log[k] = e
    ELSE 0

\* The MIDI input was closed, then the recorder signalled, then its file
\* finalized.
RecorderDoneInOrder ==
    /\ 0 < Pos("midi_closed")
    /\ Pos("midi_closed") < Pos("recorder_signalled")
    /\ Pos("recorder_signalled") < Pos("recorder_finalized")
    /\ rec_pc = "finalized"

Released == Pos("device_released") > 0 \/ td_pc = "returned"

\* C24: teardown after cancellation has a fixed order: the MIDI input is
\* closed first, then the recording sink is signalled and has finalized its
\* file, and only then is the audio device stream released; the device is
\* never released, nor teardown complete, while the recorder has not
\* finalized.
C24_TeardownOrder ==
    /\ Released => RecorderDoneInOrder
    /\ Pos("recorder_signalled") > 0 => Pos("midi_closed") \in 1..(Pos("recorder_signalled") - 1)

\* What holds at the end of Instrument::play_midi.
PlayMidiTeardownOrder == td_path = "play_midi" => C24_TeardownOrder

\* C25: when the recording sink is told to stop it flushes: every frame
\* write_frame accepted before close is in the file when the writer is
\* finalized, none that was still queued is discarded.
C25_FlushOnClose == rec_pc = "finalized" => written = accepted

\* What holds: the file is a prefix of the accepted frames, in order.
WrittenIsPrefix ==
    /\ Len(written) <= Len(accepted)
    /\ \A k \in 1..Len(written) : written[k] = accepted[k]

RecorderLagNotFatal == td_pc = "write_frame" => write_frame_result # "Closed"

-----------------------------------------------------------------------------
(***************************************************************************)
(* WaveTableIndex: properties.                                             *)
(***************************************************************************)
Abs(x) == IF x < 0 THEN -x ELSE x

\* The f32 nearest to hz * WAVE_TABLE_SIZE / sample_hz.
NearestStep == f32_div(osc_args[2] * WAVE_TABLE_SIZE, osc_args[1])

\* The index is in [0, table_len), and so was every position read.
IndexInTable ==
    /\ 0 <= table_index[1].index
    /\ table_index[1].index < WAVE_TABLE_SIZE * IndexOne
    /\ osc_lookup < WAVE_TABLE_SIZE
    /\ osc_pc = "running"

\* C21, as stated: for every hz and sample rate, from_hz yields
\* step = hz * table_len / sr, and after any number of sample_table calls
\* the index is in [0, table_len), so that no read is out of bounds.
C21_StepIsQuotient ==
    table_index # << >> =>
        /\ table_index[1].indices_per_sample = NearestStep
        /\ IndexInTable

\* C21, amended: step is hz * (table_len / sr) with the quotient and the
\* product each rounded to f32, which is within two units in the last place
\* of hz * table_len / sr; after any number of sample_table calls the index
\* is in [0, table_len) and no read is out of bounds.
C21_StepAndIndexInTable ==
    table_index # << >> =>
        /\ Abs(table_index[1].indices_per_sample - NearestStep)
              <= 2 * f32_ulp(NearestStep, 1)
        /\ IndexInTable

\* A WaveTableIndex for 5 Hz at a rate of 3 Hz, whose step is not the
\* nearest f32, has gone around the table several times.
C21_Witness ==
    /\ osc_args = <<3, 5>>
    /\ table_index[1].indices_per_sample # NearestStep
    /\ osc_samples = MaxOscSamples
    /\ osc_lookup >= 0
    /\ table_index[1].index > 0

====
